---- MODULE Spec2Model ----
(***************************************************************************)
(* Risk engine of Jason Bot Trader: DrawdownManager (3-level circuit       *)
(* breaker), the JasonBotTrader orchestrator that listens to its events,   *)
(* ExitManager (TrailingStopLoss + TakeProfitLevels) and PositionManager   *)
(* (capital, open positions, position sizing), and the strategies:         *)
(* GridTradingStrategy, MomentumStrategy and the StrategyManager that      *)
(* selects between them.                                                   *)
(*                                                                         *)
(* Units.  Capital is in whole dollars.  A fraction such as currentDrawdown*)
(* is kept exactly, as a record [num, den] with den > 0.  A configured     *)
(* percentage 0.05 is kept as the integer 5 over PercentScale = 100.       *)
(* Time is in milliseconds, as Date.now() gives it.  Prices are in cents.  *)
(***************************************************************************)
EXTENDS Integers, Sequences, FiniteSets, Bags, TLC

VARIABLES
    \* ---- DrawdownManager fields (position-manager.js 605-618)
    initialCapital, peakCapital, currentCapital, currentDrawdown,
    maxDrawdownReached, triggeredLevels, isPaused, pauseUntil, currentLevel,
    \* ---- JasonBotTrader fields (part_004 211-215) and the process
    botAttached, isRunning, botPaused, exited,
    \* ---- the clock and the pending setTimeout callbacks
    now, timers,
    \* ---- ExitManager.activeExits (position-manager.js 446) and its config
    activeExits, takeProfitPercents,
    \* ---- observation: what the last operation was, returned and emitted
    lastOp, lastArgs, lastResult, emitted, fireCount, pauseDeadlines, resets,
    maxSeen,
    \* ---- observation: the payloads of the events of the last ExitManager
    \* operation, and whether a stop-loss object ever saw a price at its stop
    eventData, stopReached,
    \* ---- PositionManager fields (position-manager.js 16-20); its
    \* currentCapital is positionCapital here
    positionCapital, openPositions, maxPositionPercent,
    \* ---- observation of the PositionManager calls: the amount passed to
    \* openPosition per open pair, whether the calls just made began with a
    \* canOpenPosition() that returned true, whether every open so far was
    \* gated and sized, the opens so far
    investedBy, gated, disciplined, opens,
    \* ---- the StrategyManager singleton (strategies/base.js 258-268) and the
    \* two strategy objects it owns, each a record of its fields
    strategyManager, strategies,
    \* ---- observation: the snapshots the momentum strategy took into its
    \* history since it was constructed or reset, and the signals given per
    \* level of the grid's current gridLevels array
    arrivals, signalled,
    \* ---- the StorageManager singleton (data/storage.js 20-30) and the
    \* sendTransaction call in progress on the WalletManager (wallet.js 186)
    storage, wallet

ddVars == <<initialCapital, peakCapital, currentCapital, currentDrawdown,
            maxDrawdownReached, triggeredLevels, isPaused, pauseUntil,
            currentLevel, botAttached, isRunning, botPaused, exited, now,
            timers, fireCount, pauseDeadlines, resets>>
exitVars == <<activeExits, takeProfitPercents, lastArgs, maxSeen, eventData, stopReached>>
exitState == <<activeExits, takeProfitPercents, maxSeen, eventData, stopReached>>
posVars == <<positionCapital, openPositions, maxPositionPercent, investedBy,
             gated, disciplined, opens>>
stratVars == <<strategyManager, strategies, arrivals, signalled>>
obsVars == <<lastOp, lastResult, emitted>>
ioVars == <<storage, wallet>>
vars == <<ddVars, exitVars, posVars, stratVars, ioVars, obsVars>>

----------------------------------------------------------------------------
\* Bounds of the model
MaxTicks == 4          \* the clock advances at most this many ticks
MaxResets == 1         \* DrawdownManager.reset() calls explored
MaxBotTimers == 1      \* pending timers beyond which bot.pause(d) is not explored
MaxOpens == 2          \* successful PositionManager.openPosition calls explored
MaxSteps == 2          \* steps of the strategies' clock
FlatSnapshots == 29    \* snapshots of a quiet market a momentum strategy collects first
MaxSnapshots == 32     \* snapshots a momentum strategy collects between two resets
MaxRouted == 1         \* snapshots StrategyManager.analyze hands to the momentum strategy

\* Program constants
PercentScale == 100
DefaultInitialCapital == 50
Level1Percent == 5
Level2Percent == 10
Level3Percent == 15
Level1Duration == 1800
Level2Duration == 7200

Null == 0 - 1          \* JavaScript null, in a field that otherwise holds a number >= 0
NoResult == [kind |-> "none"]
BoolResult(b) == [kind |-> "bool", value |-> b]

\* One tick of the model's clock: the shortest configured pause, in ms.
TickMs == Level1Duration * 1000

\* INITIAL_CAPITAL is read from the environment (default 50).
InitialCapitals == {DefaultInitialCapital, 100}
\* Capital values passed to updateCapital.
CapitalValues == {47, 84, 110}

\* config.risk.drawdownLevels; levels[i] of the code is Levels[i + 1].
Levels ==
    << [percent |-> Level1Percent, action |-> "pause", duration |-> Level1Duration],
       [percent |-> Level2Percent, action |-> "pause_and_reset", duration |-> Level2Duration],
       [percent |-> Level3Percent, action |-> "stop", duration |-> Null] >>

LevelIndexes == 0 .. (Len(Levels) - 1)

\* EVENTS.DRAWDOWN_LEVEL_1..3 by level index
DrawdownEvent(i) ==
    CASE i = 0 -> "risk.drawdown.level1"
      [] i = 1 -> "risk.drawdown.level2"
      [] i = 2 -> "risk.drawdown.level3"

----------------------------------------------------------------------------
\* Exact fractions
Frac(n, d) == [num |-> n, den |-> d]
FracLess(a, b) == a.num * b.den < b.num * a.den
FracLeq(a, b) == a.num * b.den <= b.num * a.den
Zero == Frac(0, 1)

\* Array.prototype.includes on a sequence
Includes(s, x) == \E k \in 1 .. Len(s) : s[k] = x

----------------------------------------------------------------------------
\* The mutable world an operation runs in: one record, so that a handler that
\* calls other handlers is the composition of their effects.
World ==
    [ initialCapital |-> initialCapital, peakCapital |-> peakCapital,
      currentCapital |-> currentCapital, currentDrawdown |-> currentDrawdown,
      maxDrawdownReached |-> maxDrawdownReached,
      triggeredLevels |-> triggeredLevels, isPaused |-> isPaused,
      pauseUntil |-> pauseUntil, currentLevel |-> currentLevel,
      isRunning |-> isRunning, botPaused |-> botPaused, exited |-> exited,
      timers |-> timers, emitted |-> << >>, fireCount |-> fireCount,
      pauseDeadlines |-> pauseDeadlines ]

Commit(w) ==
    /\ initialCapital' = w.initialCapital
    /\ peakCapital' = w.peakCapital
    /\ currentCapital' = w.currentCapital
    /\ currentDrawdown' = w.currentDrawdown
    /\ maxDrawdownReached' = w.maxDrawdownReached
    /\ triggeredLevels' = w.triggeredLevels
    /\ isPaused' = w.isPaused
    /\ pauseUntil' = w.pauseUntil
    /\ currentLevel' = w.currentLevel
    /\ isRunning' = w.isRunning
    /\ botPaused' = w.botPaused
    /\ exited' = w.exited
    /\ timers' = w.timers
    /\ emitted' = w.emitted
    /\ fireCount' = w.fireCount
    /\ pauseDeadlines' = w.pauseDeadlines

Timer(owner, due) == [owner |-> owner, due |-> due]
AddTimer(w, owner, due) == [w EXCEPT !.timers = @ (+) SetToBag({Timer(owner, due)})]
Emit(w, name) == [w EXCEPT !.emitted = Append(@, name)]

----------------------------------------------------------------------------
\* JasonBotTrader (part_004)

\* pause(duration): the setTimeout is scheduled only for a truthy duration
BotPauseW(w, duration) ==
    LET p == Emit([w EXCEPT !.botPaused = TRUE], "bot.paused")
    IN IF duration # Null /\ duration # 0
       THEN AddTimer(p, "bot", now + duration * 1000)
       ELSE p

BotResumeW(w) == Emit([w EXCEPT !.botPaused = FALSE], "bot.resumed")

\* mutant of BotStopW: stop() announces the stop but leaves the bot running
BotStopW_KeepsRunning(w) == Emit(w, "bot.stopped")

\* stop(): isRunning = false, BOT_STOPPED, process.exit(0)
BotStopW(w) ==
    [Emit([w EXCEPT !.isRunning = FALSE], "bot.stopped") EXCEPT !.exited = TRUE]

handleDrawdownLevel1(w) == BotPauseW(w, 1800)
handleDrawdownLevel2(w) == BotPauseW(w, 7200)

\* botEvents.emit(name): EventEmitter runs the listeners synchronously; the
\* bot's listeners exist only when a JasonBotTrader was constructed.
EmitDrawdown(w, i) ==
    LET e == Emit(w, DrawdownEvent(i))
    IN IF ~botAttached THEN e
       ELSE CASE i = 0 -> handleDrawdownLevel1(e)
              [] i = 1 -> handleDrawdownLevel2(e)
              [] i = 2 -> BotStopW(e)

----------------------------------------------------------------------------
\* DrawdownManager (position-manager.js 604-834)

pauseTrading(w, durationSeconds) ==
    IF durationSeconds = Null \/ durationSeconds = 0 THEN w
    ELSE AddTimer([w EXCEPT !.isPaused = TRUE,
                            !.pauseUntil = now + durationSeconds * 1000,
                            !.pauseDeadlines = @ \cup {now + durationSeconds * 1000}],
                  "drawdown", now + durationSeconds * 1000)

resumeTrading(w) ==
    IF ~w.isPaused THEN w
    ELSE Emit([w EXCEPT !.isPaused = FALSE, !.pauseUntil = Null], "bot.resumed")

resetToConservative(w) == Emit(w, "strategy.changed")

stopCompletely(w) == Emit(w, "bot.stopped")

executeAction(w, level) ==
    CASE level.action = "pause" -> pauseTrading(w, level.duration)
      [] level.action = "pause_and_reset" ->
            resetToConservative(pauseTrading(w, level.duration))
      [] level.action = "stop" -> stopCompletely(w)
      [] OTHER -> w

\* triggerLevel: push, currentLevel, emit the level's event (the listeners run
\* inside emit), then the action; a listener that ends the process
\* (process.exit in JasonBotTrader.stop) ends the call there.
triggerLevel(w, levelIndex, level) ==
    LET pushed == [w EXCEPT !.triggeredLevels = Append(@, levelIndex),
                            !.currentLevel = levelIndex + 1,
                            !.fireCount[levelIndex] = @ + 1]
        heard == EmitDrawdown(pushed, levelIndex)
    IN IF heard.exited THEN heard ELSE executeAction(heard, level)

\* mutant of ShouldTrigger: the triggeredLevels.includes(i) test is dropped
ShouldTrigger_NoLatch(w, i) ==
    FracLeq(w.currentDrawdown, Frac(Levels[i + 1].percent, PercentScale))

\* the condition of the if in checkDrawdownLevels
ShouldTrigger(w, i) ==
    /\ FracLeq(w.currentDrawdown, Frac(Levels[i + 1].percent, PercentScale))
    /\ ~Includes(w.triggeredLevels, i)

\* the for loop of checkDrawdownLevels, from index i on
RECURSIVE checkFrom(_, _)
checkFrom(w, i) ==
    IF i >= Len(Levels) \/ w.exited THEN w
    ELSE checkFrom(IF ShouldTrigger(w, i) THEN triggerLevel(w, i, Levels[i + 1]) ELSE w,
                   i + 1)

\* mutant of checkDrawdownLevels: the loop breaks after the first level it fires
RECURSIVE checkFirstOnly(_, _)
checkFirstOnly(w, i) ==
    IF i >= Len(Levels) \/ w.exited THEN w
    ELSE IF ShouldTrigger(w, i) THEN triggerLevel(w, i, Levels[i + 1])
    ELSE checkFirstOnly(w, i + 1)

checkDrawdownLevels_FirstOnly(w) == checkFirstOnly(w, 0)

\* mutant of checkDrawdownLevels: the loop runs from the last level to the first
RECURSIVE checkDownFrom(_, _)
checkDownFrom(w, i) ==
    IF i < 0 \/ w.exited THEN w
    ELSE checkDownFrom(IF ShouldTrigger(w, i) THEN triggerLevel(w, i, Levels[i + 1]) ELSE w,
                       i - 1)

checkDrawdownLevels_Descending(w) == checkDownFrom(w, Len(Levels) - 1)

checkDrawdownLevels(w) == checkFrom(w, 0)

\* mutant of updateCapitalW: the peak follows the capital down as well as up
updateCapitalW_PeakFollows(w, newCapital) ==
    LET dd == Frac(0, newCapital)
    IN checkDrawdownLevels([w EXCEPT !.currentCapital = newCapital,
                                     !.peakCapital = newCapital,
                                     !.currentDrawdown = dd])

\* mutant of updateCapitalW: maxDrawdownReached follows the current drawdown
updateCapitalW_MaxFollows(w, newCapital) ==
    LET peak == IF newCapital > w.peakCapital THEN newCapital ELSE w.peakCapital
        dd == Frac(newCapital - peak, peak)
    IN checkDrawdownLevels([w EXCEPT !.currentCapital = newCapital,
                                     !.peakCapital = peak,
                                     !.currentDrawdown = dd,
                                     !.maxDrawdownReached = dd])

updateCapitalW(w, newCapital) ==
    LET peak == IF newCapital > w.peakCapital THEN newCapital ELSE w.peakCapital
        dd == Frac(newCapital - peak, peak)
        maxdd == IF FracLess(dd, w.maxDrawdownReached) THEN dd ELSE w.maxDrawdownReached
    IN checkDrawdownLevels([w EXCEPT !.currentCapital = newCapital,
                                     !.peakCapital = peak,
                                     !.currentDrawdown = dd,
                                     !.maxDrawdownReached = maxdd])

\* Date.now() >= this.pauseUntil, with null converted to 0 as >= does
Expired(w) == now >= (IF w.pauseUntil = Null THEN 0 ELSE w.pauseUntil)

\* isTradingPaused: the value returned
isTradingPausedResult(w) == w.isPaused /\ ~Expired(w)

\* mutant of isTradingPausedW: the query never clears an expired pause
isTradingPausedW_NoExpiry(w) == w

\* isTradingPaused: the state left
isTradingPausedW(w) ==
    IF ~w.isPaused THEN w
    ELSE IF Expired(w) THEN resumeTrading(w)
    ELSE w

resetW(w) ==
    [w EXCEPT !.peakCapital = w.initialCapital,
              !.currentCapital = w.initialCapital,
              !.currentDrawdown = Zero,
              !.maxDrawdownReached = Zero,
              !.triggeredLevels = << >>,
              !.isPaused = FALSE,
              !.pauseUntil = Null,
              !.currentLevel = Null,
              !.fireCount = [i \in LevelIndexes |-> 0],
              !.pauseDeadlines = {}]

----------------------------------------------------------------------------
\* Actions of the drawdown specification

Alive == ~exited

Tick ==
    /\ Alive
    /\ now < MaxTicks * TickMs
    /\ now' = now + TickMs
    /\ lastOp' = "tick"
    /\ lastResult' = NoResult
    /\ Commit(World)
    /\ UNCHANGED <<botAttached, resets, exitVars, posVars, stratVars, ioVars>>

\* a setTimeout callback runs, at or after its due time
TimerFire(t) ==
    /\ Alive
    /\ BagIn(t, timers)
    /\ t.due <= now
    /\ LET w == [World EXCEPT !.timers = @ (-) SetToBag({t})]
       IN Commit(IF t.owner = "drawdown" THEN resumeTrading(w) ELSE BotResumeW(w))
    /\ lastOp' = "timer"
    /\ lastResult' = NoResult
    /\ UNCHANGED <<now, botAttached, resets, exitVars, posVars, stratVars, ioVars>>

UpdateCapital(newCapital) ==
    /\ Alive
    /\ Commit(updateCapitalW(World, newCapital))
    /\ lastOp' = "updateCapital"
    /\ lastResult' = NoResult
    /\ UNCHANGED <<now, botAttached, resets, exitVars, posVars, stratVars, ioVars>>

IsTradingPaused ==
    /\ Alive
    /\ Commit(isTradingPausedW(World))
    /\ lastOp' = "isTradingPaused"
    /\ lastResult' = BoolResult(isTradingPausedResult(World))
    /\ UNCHANGED <<now, botAttached, resets, exitVars, posVars, stratVars, ioVars>>

\* resumeTrading called by a client: the pause is ended on request
ResumeTrading ==
    /\ Alive
    /\ Commit([resumeTrading(World) EXCEPT !.pauseDeadlines = {}])
    /\ lastOp' = "resumeTrading"
    /\ lastResult' = NoResult
    /\ UNCHANGED <<now, botAttached, resets, exitVars, posVars, stratVars, ioVars>>

Reset ==
    /\ Alive
    /\ resets < MaxResets
    /\ resets' = resets + 1
    /\ Commit(resetW(World))
    /\ lastOp' = "reset"
    /\ lastResult' = NoResult
    /\ UNCHANGED <<now, botAttached, exitVars, posVars, stratVars, ioVars>>

BotStart ==
    /\ Alive /\ botAttached
    /\ Commit(Emit([World EXCEPT !.isRunning = TRUE], "bot.started"))
    /\ lastOp' = "start"
    /\ lastResult' = NoResult
    /\ UNCHANGED <<now, botAttached, resets, exitVars, posVars, stratVars, ioVars>>

\* SIGINT / SIGTERM
BotStop ==
    /\ Alive /\ botAttached
    /\ Commit(BotStopW(World))
    /\ lastOp' = "stop"
    /\ lastResult' = NoResult
    /\ UNCHANGED <<now, botAttached, resets, exitVars, posVars, stratVars, ioVars>>

BotPause(duration) ==
    /\ Alive /\ botAttached
    /\ BagCardinality(timers) < MaxBotTimers
    /\ Commit(BotPauseW(World, duration))
    /\ lastOp' = "pause"
    /\ lastResult' = NoResult
    /\ UNCHANGED <<now, botAttached, resets, exitVars, posVars, stratVars, ioVars>>

BotResume ==
    /\ Alive /\ botAttached
    /\ Commit(BotResumeW(World))
    /\ lastOp' = "resume"
    /\ lastResult' = NoResult
    /\ UNCHANGED <<now, botAttached, resets, exitVars, posVars, stratVars, ioVars>>

----------------------------------------------------------------------------
\* ExitManager, TrailingStopLoss, TakeProfitLevels (position-manager.js 304-575)

StopLossTrailing == 3
TakeProfitPercent1 == 10
TakeProfitPercent2 == 20
TakeProfitPercent3 == 30
TakeProfitAmount1 == 25
TakeProfitAmount2 == 50
TakeProfitAmount3 == 25

DefaultTakeProfitPercents == <<TakeProfitPercent1, TakeProfitPercent2, TakeProfitPercent3>>
TakeProfitAmounts == <<TakeProfitAmount1, TakeProfitAmount2, TakeProfitAmount3>>

\* TAKE_PROFIT_LEVEL_1..3 are read from the environment and not validated:
\* the defaults, and a first level set below the entry price.
TakeProfitConfigs == {DefaultTakeProfitPercents,
                      <<0 - 5, TakeProfitPercent2, TakeProfitPercent3>>}

Pairs == {"WETH/USDC", "ARB/USDC"}
\* prices in cents; whole dollars, so that x * 0.97 and x * 1.10 are whole cents
EntryPrices == {10000}
Prices == {9600, 9700, 10600, 11000, 12500, 13200, 13500}

NoExits == [p \in {} |-> 0]
NoArgs == [pair |-> "none", price |-> 0]

\* ((currentPrice - entryPrice) / entryPrice) * 100
PnlPercent(currentPrice, entryPrice) == Frac((currentPrice - entryPrice) * 100, entryPrice)

\* x * (1 - trailingPercent)
BelowBy(x, percent) == (x * (PercentScale - percent)) \div PercentScale
\* x * (1 + percent)
AboveBy(x, percent) == (x * (PercentScale + percent)) \div PercentScale

\* payload of EVENTS.STOP_LOSS_TRIGGERED
StopLossData(sl, currentPrice) ==
    [ event |-> "risk.stop_loss_triggered", entryPrice |-> sl.entryPrice,
      exitPrice |-> currentPrice, highestPrice |-> sl.highestPrice,
      pnlPercent |-> PnlPercent(currentPrice, sl.entryPrice) ]

\* new TrailingStopLoss(entryPrice)
TrailingStopLoss(entryPrice) ==
    [ entryPrice |-> entryPrice, trailingPercent |-> StopLossTrailing,
      highestPrice |-> entryPrice,
      stopPrice |-> BelowBy(entryPrice, StopLossTrailing),
      isTriggered |-> FALSE ]

\* mutant of stopLossUpdate: the high-water mark follows every price
stopLossUpdate_FollowsPrice(sl, currentPrice) ==
    LET raised == [sl EXCEPT !.highestPrice = currentPrice,
                            !.stopPrice = BelowBy(currentPrice, sl.trailingPercent)]
    IN IF currentPrice <= raised.stopPrice /\ ~raised.isTriggered
       THEN [sl |-> [raised EXCEPT !.isTriggered = TRUE], hit |-> TRUE,
             emitted |-> <<"risk.stop_loss_triggered">>,
             data |-> <<StopLossData(raised, currentPrice)>>]
       ELSE [sl |-> raised, hit |-> FALSE, emitted |-> << >>, data |-> << >>]

\* mutant of stopLossUpdate: a new high is recorded but stopPrice is left behind
stopLossUpdate_StaleStop(sl, currentPrice) ==
    LET raised == IF currentPrice > sl.highestPrice
                  THEN [sl EXCEPT !.highestPrice = currentPrice]
                  ELSE sl
    IN IF currentPrice <= raised.stopPrice /\ ~raised.isTriggered
       THEN [sl |-> [raised EXCEPT !.isTriggered = TRUE], hit |-> TRUE,
             emitted |-> <<"risk.stop_loss_triggered">>,
             data |-> <<StopLossData(raised, currentPrice)>>]
       ELSE [sl |-> raised, hit |-> FALSE, emitted |-> << >>, data |-> << >>]

\* mutant of stopLossUpdate: isTriggered is not consulted
stopLossUpdate_Retriggers(sl, currentPrice) ==
    LET raised == IF currentPrice > sl.highestPrice
                  THEN [sl EXCEPT !.highestPrice = currentPrice,
                                  !.stopPrice = BelowBy(currentPrice, sl.trailingPercent)]
                  ELSE sl
    IN IF currentPrice <= raised.stopPrice
       THEN [sl |-> [raised EXCEPT !.isTriggered = TRUE], hit |-> TRUE,
             emitted |-> <<"risk.stop_loss_triggered">>,
             data |-> <<StopLossData(raised, currentPrice)>>]
       ELSE [sl |-> raised, hit |-> FALSE, emitted |-> << >>, data |-> << >>]

\* TrailingStopLoss.update: the object left, the value returned, the events
stopLossUpdate(sl, currentPrice) ==
    LET raised == IF currentPrice > sl.highestPrice
                  THEN [sl EXCEPT !.highestPrice = currentPrice,
                                  !.stopPrice = BelowBy(currentPrice, sl.trailingPercent)]
                  ELSE sl
    IN IF currentPrice <= raised.stopPrice /\ ~raised.isTriggered
       THEN [sl |-> [raised EXCEPT !.isTriggered = TRUE], hit |-> TRUE,
             emitted |-> <<"risk.stop_loss_triggered">>,
             data |-> <<StopLossData(raised, currentPrice)>>]
       ELSE [sl |-> raised, hit |-> FALSE, emitted |-> << >>, data |-> << >>]

\* new TakeProfitLevels(entryPrice), from config.risk.takeProfitLevels
TakeProfitLevels(entryPrice, percents) ==
    [ entryPrice |-> entryPrice,
      levels |-> [k \in 1 .. Len(percents) |->
                    [ percent |-> percents[k], amount |-> TakeProfitAmounts[k],
                      targetPrice |-> AboveBy(entryPrice, percents[k]),
                      isTriggered |-> FALSE, levelIndex |-> k ]],
      executedLevels |-> << >> ]

\* currentPrice >= level.targetPrice.  targetPrice is the floating-point
\* product entryPrice * (1 + percent), which can land one ulp above the exact
\* product (100 * (1 + 0.1) is 110.00000000000001): a price equal to the exact
\* product reaches it or not, as atTarget says.
ReachesTarget(currentPrice, level, atTarget) ==
    \/ currentPrice > level.targetPrice
    \/ currentPrice = level.targetPrice /\ atTarget

\* the for loop of checkLevels from level k on; hit collects the level indexes
RECURSIVE checkLevelsFrom(_, _, _, _, _)
checkLevelsFrom(tp, hit, currentPrice, atTarget, k) ==
    IF k > Len(tp.levels) THEN [tp |-> tp, hit |-> hit]
    ELSE IF ~tp.levels[k].isTriggered /\ ReachesTarget(currentPrice, tp.levels[k], atTarget)
         THEN checkLevelsFrom([tp EXCEPT !.levels[k].isTriggered = TRUE,
                                         !.executedLevels = Append(@, k)],
                              Append(hit, k), currentPrice, atTarget, k + 1)
         ELSE checkLevelsFrom(tp, hit, currentPrice, atTarget, k + 1)

\* mutant of checkLevels: isTriggered is not consulted, a level reached is
\* returned again
RECURSIVE checkLevelsAgainFrom(_, _, _, _, _)
checkLevelsAgainFrom(tp, hit, currentPrice, atTarget, k) ==
    IF k > Len(tp.levels) THEN [tp |-> tp, hit |-> hit]
    ELSE IF ReachesTarget(currentPrice, tp.levels[k], atTarget)
         THEN checkLevelsAgainFrom([tp EXCEPT !.levels[k].isTriggered = TRUE,
                                              !.executedLevels = Append(@, k)],
                                   Append(hit, k), currentPrice, atTarget, k + 1)
         ELSE checkLevelsAgainFrom(tp, hit, currentPrice, atTarget, k + 1)

checkLevels_Again(tp, currentPrice, atTarget) ==
    checkLevelsAgainFrom(tp, << >>, currentPrice, atTarget, 1)

\* mutant of checkLevels: the loop ends at the first level it triggers
RECURSIVE checkLevelsOneFrom(_, _, _, _, _)
checkLevelsOneFrom(tp, hit, currentPrice, atTarget, k) ==
    IF k > Len(tp.levels) THEN [tp |-> tp, hit |-> hit]
    ELSE IF ~tp.levels[k].isTriggered /\ ReachesTarget(currentPrice, tp.levels[k], atTarget)
         THEN [tp |-> [tp EXCEPT !.levels[k].isTriggered = TRUE,
                                 !.executedLevels = Append(@, k)],
               hit |-> Append(hit, k)]
         ELSE checkLevelsOneFrom(tp, hit, currentPrice, atTarget, k + 1)

checkLevels_OnePerCall(tp, currentPrice, atTarget) ==
    checkLevelsOneFrom(tp, << >>, currentPrice, atTarget, 1)

\* TakeProfitLevels.checkLevels: the object left and the levels newly triggered
checkLevels(tp, currentPrice, atTarget) ==
    checkLevelsFrom(tp, << >>, currentPrice, atTarget, 1)

\* mutant of allLevelsExecuted: some level, not every level
allLevelsExecuted_Some(tp) == \E k \in 1 .. Len(tp.levels) : tp.levels[k].isTriggered

allLevelsExecuted(tp) == \A k \in 1 .. Len(tp.levels) : tp.levels[k].isTriggered

\* TrailingStopLoss.getState
stopLossGetState(sl) ==
    [ entryPrice |-> sl.entryPrice, highestPrice |-> sl.highestPrice,
      stopPrice |-> sl.stopPrice, trailingPercent |-> sl.trailingPercent,
      isTriggered |-> sl.isTriggered ]

\* TakeProfitLevels.getState
takeProfitGetState(tp) ==
    [ entryPrice |-> tp.entryPrice,
      levels |-> [k \in 1 .. Len(tp.levels) |->
                    [ levelIndex |-> tp.levels[k].levelIndex,
                      targetPrice |-> tp.levels[k].targetPrice,
                      percent |-> tp.levels[k].percent,
                      amountToSell |-> tp.levels[k].amount,
                      triggered |-> tp.levels[k].isTriggered ]],
      executedCount |-> Len(tp.executedLevels),
      totalLevels |-> Len(tp.levels),
      allExecuted |-> allLevelsExecuted(tp) ]

NoExitResult == [kind |-> "exit", shouldExit |-> FALSE, reason |-> "null"]

FullExit(reason, currentPrice, entryPrice) ==
    [ kind |-> "exit", shouldExit |-> TRUE, reason |-> reason,
      exitPrice |-> currentPrice,
      pnlPercent |-> PnlPercent(currentPrice, entryPrice) ]

PartialExit(tp, hit, currentPrice) ==
    [ kind |-> "exit", shouldExit |-> FALSE, reason |-> "undefined",
      partialExit |-> [j \in 1 .. Len(hit) |->
                         [ levelIndex |-> tp.levels[hit[j]].levelIndex,
                           amountPercent |-> tp.levels[hit[j]].amount,
                           targetPrice |-> tp.levels[hit[j]].targetPrice,
                           currentPrice |-> currentPrice ]] ]

TakeProfitEvents(hit) == [j \in 1 .. Len(hit) |-> "risk.take_profit_triggered"]

\* payloads of EVENTS.TAKE_PROFIT_TRIGGERED, one per level newly triggered
TakeProfitData(tp, hit, currentPrice) ==
    [j \in 1 .. Len(hit) |->
        [ event |-> "risk.take_profit_triggered",
          level |-> tp.levels[hit[j]].levelIndex,
          entryPrice |-> tp.entryPrice, exitPrice |-> currentPrice,
          percent |-> tp.levels[hit[j]].percent,
          amountToSell |-> tp.levels[hit[j]].amount,
          pnlPercent |-> PnlPercent(currentPrice, tp.entryPrice) ]]

\* mutant of exitUpdate: the take-profit levels are checked before the
\* stop-loss answer is returned
exitUpdate_NoShortCircuit(exit, currentPrice, atTarget) ==
    LET s == stopLossUpdate(exit.stopLoss, currentPrice)
        t == checkLevels(exit.takeProfit, currentPrice, atTarget)
        after == [exit EXCEPT !.stopLoss = s.sl, !.takeProfit = t.tp]
    IN IF s.hit
       THEN [ exit |-> after,
              result |-> FullExit("stop_loss", currentPrice, exit.entryPrice),
              emitted |-> s.emitted \o TakeProfitEvents(t.hit),
              data |-> s.data \o TakeProfitData(t.tp, t.hit, currentPrice) ]
       ELSE [ exit |-> after,
              result |-> IF t.hit = << >> THEN NoExitResult
                         ELSE IF allLevelsExecuted(t.tp)
                         THEN FullExit("all_take_profit_levels", currentPrice, exit.entryPrice)
                         ELSE PartialExit(t.tp, t.hit, currentPrice),
              emitted |-> TakeProfitEvents(t.hit),
              data |-> TakeProfitData(t.tp, t.hit, currentPrice) ]

\* mutant of exitUpdate: a full exit is returned whenever every level is
\* executed, also by a call that triggered none
exitUpdate_ExitWhenAllExecuted(exit, currentPrice, atTarget) ==
    LET s == stopLossUpdate(exit.stopLoss, currentPrice)
    IN IF s.hit
       THEN [ exit |-> [exit EXCEPT !.stopLoss = s.sl],
              result |-> FullExit("stop_loss", currentPrice, exit.entryPrice),
              emitted |-> s.emitted, data |-> s.data ]
       ELSE LET t == checkLevels(exit.takeProfit, currentPrice, atTarget)
                after == [exit EXCEPT !.stopLoss = s.sl, !.takeProfit = t.tp]
            IN [ exit |-> after,
                 result |-> IF allLevelsExecuted(t.tp)
                            THEN FullExit("all_take_profit_levels", currentPrice,
                                          exit.entryPrice)
                            ELSE IF t.hit = << >> THEN NoExitResult
                            ELSE PartialExit(t.tp, t.hit, currentPrice),
                 emitted |-> TakeProfitEvents(t.hit),
                 data |-> TakeProfitData(t.tp, t.hit, currentPrice) ]

\* ExitManager.update for a managed pair: the record left, the value
\* returned, the events
exitUpdate(exit, currentPrice, atTarget) ==
    LET s == stopLossUpdate(exit.stopLoss, currentPrice)
    IN IF s.hit
       THEN [ exit |-> [exit EXCEPT !.stopLoss = s.sl],
              result |-> FullExit("stop_loss", currentPrice, exit.entryPrice),
              emitted |-> s.emitted, data |-> s.data ]
       ELSE LET t == checkLevels(exit.takeProfit, currentPrice, atTarget)
                after == [exit EXCEPT !.stopLoss = s.sl, !.takeProfit = t.tp]
            IN [ exit |-> after,
                 result |-> IF t.hit = << >> THEN NoExitResult
                            ELSE IF allLevelsExecuted(t.tp)
                            THEN FullExit("all_take_profit_levels", currentPrice,
                                          exit.entryPrice)
                            ELSE PartialExit(t.tp, t.hit, currentPrice),
                 emitted |-> TakeProfitEvents(t.hit),
                 data |-> TakeProfitData(t.tp, t.hit, currentPrice) ]

Max(a, b) == IF a >= b THEN a ELSE b
Put(f, k, v) == [x \in DOMAIN f \cup {k} |-> IF x = k THEN v ELSE f[x]]
Drop(f, k) == [x \in DOMAIN f \ {k} |-> f[x]]

StartManaging(pair, entryPrice) ==
    /\ activeExits' = Put(activeExits, pair,
                          [ stopLoss |-> TrailingStopLoss(entryPrice),
                            takeProfit |-> TakeProfitLevels(entryPrice, takeProfitPercents),
                            entryPrice |-> entryPrice, startTime |-> now ])
    /\ maxSeen' = Put(maxSeen, pair, entryPrice)
    /\ stopReached' = Put(stopReached, pair, FALSE)
    /\ eventData' = << >>
    /\ lastOp' = "startManaging"
    /\ lastArgs' = [pair |-> pair, price |-> entryPrice]
    /\ lastResult' = NoResult
    /\ emitted' = << >>
    /\ UNCHANGED <<ddVars, takeProfitPercents, posVars, stratVars, ioVars>>

ExitUpdate(pair, currentPrice, atTarget) ==
    /\ IF pair \notin DOMAIN activeExits
       THEN /\ lastResult' = NoExitResult
            /\ emitted' = << >>
            /\ eventData' = << >>
            /\ UNCHANGED <<activeExits, maxSeen, stopReached>>
       ELSE LET u == exitUpdate(activeExits[pair], currentPrice, atTarget)
            IN /\ activeExits' = [activeExits EXCEPT ![pair] = u.exit]
               /\ lastResult' = u.result
               /\ emitted' = u.emitted
               /\ eventData' = u.data
               /\ maxSeen' = [maxSeen EXCEPT ![pair] = Max(@, currentPrice)]
               /\ stopReached' = [stopReached EXCEPT ![pair] =
                                     @ \/ currentPrice <= u.exit.stopLoss.stopPrice]
    /\ lastOp' = "update"
    /\ lastArgs' = [pair |-> pair, price |-> currentPrice]
    /\ UNCHANGED <<ddVars, takeProfitPercents, posVars, stratVars, ioVars>>

\* mutant of StopManaging: the whole map is cleared
StopManaging_ClearsAll(pair) ==
    /\ activeExits' = NoExits
    /\ maxSeen' = NoExits
    /\ stopReached' = NoExits
    /\ eventData' = << >>
    /\ lastOp' = "stopManaging"
    /\ lastArgs' = [pair |-> pair, price |-> 0, had |-> pair \in DOMAIN activeExits]
    /\ lastResult' = NoResult
    /\ emitted' = << >>
    /\ UNCHANGED <<ddVars, takeProfitPercents, posVars, stratVars, ioVars>>

\* ExitManager.stopManaging; lastArgs.had records what activeExits.has(pair) was
StopManaging(pair) ==
    /\ activeExits' = IF pair \in DOMAIN activeExits THEN Drop(activeExits, pair)
                      ELSE activeExits
    /\ maxSeen' = Drop(maxSeen, pair)
    /\ stopReached' = Drop(stopReached, pair)
    /\ eventData' = << >>
    /\ lastOp' = "stopManaging"
    /\ lastArgs' = [pair |-> pair, price |-> 0, had |-> pair \in DOMAIN activeExits]
    /\ lastResult' = NoResult
    /\ emitted' = << >>
    /\ UNCHANGED <<ddVars, takeProfitPercents, posVars, stratVars, ioVars>>

\* ExitManager.getExitState; elapsedTime is in whole seconds
GetExitState(pair) ==
    /\ lastResult' = IF pair \notin DOMAIN activeExits THEN [kind |-> "null"]
                     ELSE [ kind |-> "exitState", pair |-> pair,
                            entryPrice |-> activeExits[pair].entryPrice,
                            elapsedTime |-> (now - activeExits[pair].startTime) \div 1000,
                            stopLoss |-> stopLossGetState(activeExits[pair].stopLoss),
                            takeProfit |-> takeProfitGetState(activeExits[pair].takeProfit) ]
    /\ lastOp' = "getExitState"
    /\ lastArgs' = [pair |-> pair, price |-> 0]
    /\ emitted' = << >>
    /\ eventData' = << >>
    /\ UNCHANGED <<ddVars, takeProfitPercents, activeExits, maxSeen, stopReached, posVars, stratVars, ioVars>>

ExitReset ==
    /\ activeExits' = NoExits
    /\ maxSeen' = NoExits
    /\ stopReached' = NoExits
    /\ eventData' = << >>
    /\ lastOp' = "exitReset"
    /\ lastArgs' = NoArgs
    /\ lastResult' = NoResult
    /\ emitted' = << >>
    /\ UNCHANGED <<ddVars, takeProfitPercents, posVars, stratVars, ioVars>>

----------------------------------------------------------------------------
\* PositionManager (position-manager.js 15-286).  Dollar amounts and token
\* amounts are exact rationals [num, den] in lowest terms, den > 0; prices are
\* whole dollars.

DefaultMaxPositionPercent == 10
MaxAllowedPositionPercent == 20
MinPositionSize == 10

Abs(x) == IF x < 0 THEN 0 - x ELSE x

RECURSIVE GCD(_, _)
GCD(a, b) == IF b = 0 THEN a ELSE GCD(b, a % b)

\* n / d in lowest terms, d > 0
Rat(n, d) == LET g == GCD(Abs(n), d) IN [num |-> n \div g, den |-> d \div g]
Whole(n) == [num |-> n, den |-> 1]
Half == Rat(1, 2)

\* a value that is not a finite number (NaN or an Infinity), from a division
\* by zero; arithmetic on it stays not finite
NotFinite == [num |-> 0, den |-> 0]

RatAdd(a, b) ==
    IF a.den = 0 \/ b.den = 0 THEN NotFinite
    ELSE LET g == GCD(a.den, b.den)
         IN Rat(a.num * (b.den \div g) + b.num * (a.den \div g), (a.den \div g) * b.den)
RatSub(a, b) == RatAdd(a, [num |-> 0 - b.num, den |-> b.den])
RatMul(a, b) ==
    IF a.den = 0 \/ b.den = 0 THEN NotFinite
    ELSE LET g1 == GCD(Abs(a.num), b.den)
             g2 == GCD(Abs(b.num), a.den)
         IN Rat((a.num \div g1) * (b.num \div g2), (a.den \div g2) * (b.den \div g1))
RatDiv(a, b) ==
    IF a.den = 0 \/ b.den = 0 \/ b.num = 0 THEN NotFinite
    ELSE IF b.num > 0 THEN RatMul(a, [num |-> b.den, den |-> b.num])
    ELSE RatMul(a, [num |-> 0 - b.den, den |-> 0 - b.num])
RatLess(a, b) == a.num * b.den < b.num * a.den
\* Math.max(a, b)
RatMax(a, b) == IF RatLess(a, b) THEN b ELSE a

\* MAX_POSITION_PERCENT is read from the environment; validateConfig rejects
\* a value above 0.2.  The position manager is explored at that largest
\* value, where a position takes the largest share of the available capital.
MaxPositionPercents == {MaxAllowedPositionPercent}

\* the optional volatility argument: left out, or a number >= 0
NoVolatility == [num |-> 0 - 1, den |-> 0]
Volatilities == {NoVolatility, Whole(0), Rat(1, 10), Whole(1)}

PositionPrices == {2}
\* prices passed to updatePosition and to closePosition
MarketPrices == {3}
ExitPrices == {0, 2, 3}
\* an amount a caller passes to openPosition without sizing it: more than
\* half the initial capital
CallerAmounts == {30}

NoPositions == [p \in {} |-> 0]
NullResult == [kind |-> "null"]
NumberResult(x) == [kind |-> "number", value |-> x]

\* the PositionManager object
PosWorld == [currentCapital |-> positionCapital, openPositions |-> openPositions]

\* the sum of f[k].investedAmount over the keys of f
RECURSIVE SumInvested(_)
SumInvested(f) ==
    IF DOMAIN f = {} THEN Whole(0)
    ELSE LET k == CHOOSE x \in DOMAIN f : TRUE
         IN RatAdd(f[k].investedAmount, SumInvested(Drop(f, k)))

\* PositionManager.updateCapital
positionUpdateCapital(pm, newCapital) == [pm EXCEPT !.currentCapital = newCapital]

\* mutant of getAvailableCapital: the open positions are not subtracted
getAvailableCapital_IgnoresPositions(pm) == pm.currentCapital

\* PositionManager.getAvailableCapital
getAvailableCapital(pm) == RatSub(pm.currentCapital, SumInvested(pm.openPositions))

\* Math.max(0.5, 1 - (volatility / 0.5))
adjustmentFactor(volatility) == RatMax(Half, RatSub(Whole(1), RatDiv(volatility, Half)))

SizeResult(pm, baseAmount, currentPrice) ==
    [ kind |-> "size", amountUSD |-> baseAmount,
      amountToken |-> RatDiv(baseAmount, Whole(currentPrice)),
      percent |-> RatMul(RatDiv(baseAmount, pm.currentCapital), Whole(100)) ]

\* mutant of calculatePositionSize: the adjustment has no 0.5 floor
calculatePositionSize_NoFloor(pm, currentPrice, volatility) ==
    LET availableCapital == getAvailableCapital(pm)
        baseAmount == RatMul(availableCapital, Rat(maxPositionPercent, PercentScale))
    IN SizeResult(pm,
                  IF volatility = NoVolatility THEN baseAmount
                  ELSE RatMul(baseAmount, RatSub(Whole(1), RatDiv(volatility, Half))),
                  currentPrice)

\* mutant of calculatePositionSize: maxPositionPercent taken as a factor
calculatePositionSize_PercentAsFactor(pm, currentPrice, volatility) ==
    LET availableCapital == getAvailableCapital(pm)
        baseAmount == RatMul(availableCapital, Whole(maxPositionPercent))
    IN SizeResult(pm,
                  IF volatility = NoVolatility THEN baseAmount
                  ELSE RatMul(baseAmount, adjustmentFactor(volatility)),
                  currentPrice)

\* PositionManager.calculatePositionSize
calculatePositionSize(pm, currentPrice, volatility) ==
    LET availableCapital == getAvailableCapital(pm)
        baseAmount == RatMul(availableCapital, Rat(maxPositionPercent, PercentScale))
    IN SizeResult(pm,
                  IF volatility = NoVolatility THEN baseAmount
                  ELSE RatMul(baseAmount, adjustmentFactor(volatility)),
                  currentPrice)

hasOpenPosition(pm, pair) == pair \in DOMAIN pm.openPositions

NewPosition(pair, entryPrice, amountUSD, amountToken) ==
    [ pair |-> pair, entryPrice |-> entryPrice, entryTime |-> now,
      investedAmount |-> amountUSD, tokenAmount |-> amountToken,
      currentPrice |-> entryPrice, unrealizedPnL |-> Whole(0),
      unrealizedPnLPercent |-> Whole(0) ]

\* mutant of openPosition: no existence check, the stored position is replaced
openPosition_Overwrites(pm, pair, entryPrice, amountUSD, amountToken) ==
    [ pm |-> [pm EXCEPT !.openPositions =
                Put(@, pair, NewPosition(pair, entryPrice, amountUSD, amountToken))],
      result |-> BoolResult(TRUE) ]

\* PositionManager.openPosition
openPosition(pm, pair, entryPrice, amountUSD, amountToken) ==
    IF hasOpenPosition(pm, pair)
    THEN [pm |-> pm, result |-> BoolResult(FALSE)]
    ELSE [ pm |-> [pm EXCEPT !.openPositions =
                     Put(@, pair, NewPosition(pair, entryPrice, amountUSD, amountToken))],
           result |-> BoolResult(TRUE) ]

\* PositionManager.updatePosition
updatePosition(pm, pair, currentPrice) ==
    IF ~hasOpenPosition(pm, pair) THEN [pm |-> pm, result |-> NullResult]
    ELSE LET position == pm.openPositions[pair]
             currentValue == RatMul(position.tokenAmount, Whole(currentPrice))
             unrealizedPnL == RatSub(currentValue, position.investedAmount)
             updated == [position EXCEPT
                           !.currentPrice = currentPrice,
                           !.unrealizedPnL = unrealizedPnL,
                           !.unrealizedPnLPercent =
                               RatMul(RatDiv(unrealizedPnL, position.investedAmount),
                                      Whole(100))]
         IN [ pm |-> [pm EXCEPT !.openPositions[pair] = updated],
              result |-> [kind |-> "position", position |-> updated] ]

TradeRecord(position, exitPrice, realizedPnL) ==
    [ kind |-> "trade", pair |-> position.pair, entryPrice |-> position.entryPrice,
      exitPrice |-> exitPrice, entryTime |-> position.entryTime, exitTime |-> now,
      investedAmount |-> position.investedAmount,
      tokenAmount |-> position.tokenAmount, realizedPnL |-> realizedPnL,
      realizedPnLPercent |-> RatMul(RatDiv(realizedPnL, position.investedAmount),
                                    Whole(100)) ]

\* mutant of closePosition: the position stays in the map
closePosition_KeepsPosition(pm, pair, exitPrice) ==
    IF ~hasOpenPosition(pm, pair) THEN [pm |-> pm, result |-> NullResult]
    ELSE LET position == pm.openPositions[pair]
             exitValue == RatMul(position.tokenAmount, Whole(exitPrice))
             realizedPnL == RatSub(exitValue, position.investedAmount)
         IN [ pm |-> positionUpdateCapital(pm, RatAdd(pm.currentCapital, realizedPnL)),
              result |-> TradeRecord(position, exitPrice, realizedPnL) ]

\* mutant of closePosition: the whole exit value is credited to capital, the
\* invested amount counted twice
closePosition_CreditsExitValue(pm, pair, exitPrice) ==
    IF ~hasOpenPosition(pm, pair) THEN [pm |-> pm, result |-> NullResult]
    ELSE LET position == pm.openPositions[pair]
             exitValue == RatMul(position.tokenAmount, Whole(exitPrice))
             realizedPnL == RatSub(exitValue, position.investedAmount)
             credited == positionUpdateCapital(pm, RatAdd(pm.currentCapital, exitValue))
         IN [ pm |-> [credited EXCEPT !.openPositions = Drop(@, pair)],
              result |-> TradeRecord(position, exitPrice, realizedPnL) ]

\* PositionManager.closePosition
closePosition(pm, pair, exitPrice) ==
    IF ~hasOpenPosition(pm, pair) THEN [pm |-> pm, result |-> NullResult]
    ELSE LET position == pm.openPositions[pair]
             exitValue == RatMul(position.tokenAmount, Whole(exitPrice))
             realizedPnL == RatSub(exitValue, position.investedAmount)
             credited == positionUpdateCapital(pm, RatAdd(pm.currentCapital, realizedPnL))
         IN [ pm |-> [credited EXCEPT !.openPositions = Drop(@, pair)],
              result |-> TradeRecord(position, exitPrice, realizedPnL) ]

\* PositionManager.canOpenPosition
canOpenPosition(pm) ==
    ~RatLess(getAvailableCapital(pm), Whole(MinPositionSize))

CommitPos(pm) ==
    /\ positionCapital' = pm.currentCapital
    /\ openPositions' = pm.openPositions

\* the call comes right after canOpenPosition() returned true and
\* calculatePositionSize was called, and passes the amounts it returned
GatedAndSized(amountUSD, amountToken) ==
    /\ gated
    /\ lastOp = "calculatePositionSize"
    /\ amountUSD = lastResult.amountUSD
    /\ amountToken = lastResult.amountToken

OpenPosition(pair, entryPrice, amountUSD, amountToken) ==
    /\ opens < MaxOpens \/ hasOpenPosition(PosWorld, pair)
    /\ LET o == openPosition(PosWorld, pair, entryPrice, amountUSD, amountToken)
       IN /\ CommitPos(o.pm)
          /\ lastResult' = o.result
          /\ IF o.result.value
             THEN /\ investedBy' = Put(investedBy, pair, amountUSD)
                  /\ disciplined' = (disciplined /\ GatedAndSized(amountUSD, amountToken))
                  /\ opens' = opens + 1
             ELSE UNCHANGED <<investedBy, disciplined, opens>>
    /\ gated' = FALSE
    /\ lastOp' = "openPosition"
    /\ lastArgs' = [pair |-> pair, price |-> entryPrice, amountUSD |-> amountUSD,
                    amountToken |-> amountToken]
    /\ emitted' = << >>
    /\ UNCHANGED <<ddVars, exitState, stratVars, ioVars, maxPositionPercent>>

UpdatePosition(pair, currentPrice) ==
    /\ LET u == updatePosition(PosWorld, pair, currentPrice)
       IN CommitPos(u.pm) /\ lastResult' = u.result
    /\ lastOp' = "updatePosition"
    /\ lastArgs' = [pair |-> pair, price |-> currentPrice]
    /\ emitted' = << >>
    /\ gated' = FALSE
    /\ UNCHANGED <<ddVars, exitState, stratVars, ioVars, maxPositionPercent, investedBy, disciplined,
                   opens>>

ClosePosition(pair, exitPrice) ==
    /\ LET c == closePosition(PosWorld, pair, exitPrice)
       IN CommitPos(c.pm) /\ lastResult' = c.result
    /\ investedBy' = Drop(investedBy, pair)
    /\ gated' = FALSE
    /\ lastOp' = "closePosition"
    /\ lastArgs' = [pair |-> pair, price |-> exitPrice]
    /\ emitted' = << >>
    /\ UNCHANGED <<ddVars, exitState, stratVars, ioVars, maxPositionPercent, disciplined, opens>>

GetAvailableCapital ==
    /\ lastResult' = NumberResult(getAvailableCapital(PosWorld))
    /\ gated' = FALSE
    /\ lastOp' = "getAvailableCapital"
    /\ lastArgs' = NoArgs
    /\ emitted' = << >>
    /\ UNCHANGED <<ddVars, exitState, stratVars, ioVars, positionCapital, openPositions,
                   maxPositionPercent, investedBy, disciplined, opens>>

CanOpenPosition ==
    /\ lastResult' = BoolResult(canOpenPosition(PosWorld))
    /\ gated' = canOpenPosition(PosWorld)
    /\ lastOp' = "canOpenPosition"
    /\ lastArgs' = NoArgs
    /\ emitted' = << >>
    /\ UNCHANGED <<ddVars, exitState, stratVars, ioVars, positionCapital, openPositions,
                   maxPositionPercent, investedBy, disciplined, opens>>

CalculatePositionSize(currentPrice, volatility) ==
    /\ lastResult' = calculatePositionSize(PosWorld, currentPrice, volatility)
    /\ UNCHANGED gated
    /\ lastOp' = "calculatePositionSize"
    /\ lastArgs' = [pair |-> "none", price |-> currentPrice, volatility |-> volatility]
    /\ emitted' = << >>
    /\ UNCHANGED <<ddVars, exitState, stratVars, ioVars, positionCapital, openPositions,
                   maxPositionPercent, investedBy, disciplined, opens>>

\* PositionManager.reset
PositionReset ==
    /\ positionCapital' = Whole(initialCapital)
    /\ openPositions' = NoPositions
    /\ investedBy' = NoPositions
    /\ gated' = FALSE
    /\ lastOp' = "positionReset"
    /\ lastArgs' = NoArgs
    /\ lastResult' = NoResult
    /\ emitted' = << >>
    /\ UNCHANGED <<ddVars, exitState, stratVars, ioVars, maxPositionPercent, disciplined, opens>>

----------------------------------------------------------------------------
\* Strategies: BaseStrategy (strategies/base.js 15-235), GridTradingStrategy
\* (strategies/grid-trading.js), MomentumStrategy (strategies/momentum.js)
\* and StrategyManager (strategies/base.js 257-473).
\*
\* Units.  A market price is in whole dollars; a computed price (a grid level)
\* is an exact rational.  A configured fraction 0.95 is the rational 95/100.
\* Date.now() never gives 0, so the clock of these specifications starts at
\* ClockStart > 0 and advances by StepMs.

\* Program constants of the strategies
GridLevels == 5
GridRangeMin == 95
GridRangeMax == 110
GridAmountPerLevel == 2
GridRebalanceInterval == 300
GridSignalDistance == 5
GridRebalancePercent == 5

MsPerSecond == 1000

\* a field that an object does not have
Undefined == 0 - 2
\* JavaScript's !x for a field that holds a number, null or nothing
Falsy(x) == x = Null \/ x = Undefined \/ x = 0

RatAbs(a) == [num |-> Abs(a.num), den |-> a.den]

\* config.strategies.grid (core/config.js): the defaults
DefaultGridConfig ==
    [ levels |-> GridLevels,
      rangeMin |-> Rat(GridRangeMin, PercentScale),
      rangeMax |-> Rat(GridRangeMax, PercentScale),
      amountPerLevel |-> Rat(GridAmountPerLevel, PercentScale),
      rebalanceInterval |-> GridRebalanceInterval ]
\* GRID_RANGE_MIN = -0.05 and GRID_RANGE_MAX = 0.05 set in the environment
OffsetGridConfig ==
    [DefaultGridConfig EXCEPT !.rangeMin = Rat(0 - 5, PercentScale),
                              !.rangeMax = Rat(5, PercentScale)]
GridConfigs == {DefaultGridConfig, OffsetGridConfig}

StrategyKeys == {"grid", "momentum"}

\* A strategy is a record of its fields.  Of BaseStrategy's: currentPosition is
\* "null" or "position" (the object a caller handed to updatePosition); of
\* metrics, totalSignals is kept (recordTrade has no caller in the strategies).

\* new GridTradingStrategy(customConfig)
NewGridTradingStrategy(config) ==
    [ name |-> "Grid Trading", config |-> config, isActive |-> FALSE,
      currentPosition |-> "null", totalSignals |-> 0,
      gridLevels |-> << >>, basePrice |-> Null, lastRebalance |-> Null ]

\* BaseStrategy.activate / deactivate / updatePosition / clearPosition /
\* recordSignal / resetMetrics, on a strategy record
activate(s) == [s EXCEPT !.isActive = TRUE]
deactivate(s) == [s EXCEPT !.isActive = FALSE]
strategyUpdatePosition(s) == [s EXCEPT !.currentPosition = "position"]
clearPosition(s) == [s EXCEPT !.currentPosition = "null"]
strategyHasOpenPosition(s) == s.currentPosition # "null"
recordSignal(s) == [s EXCEPT !.totalSignals = @ + 1]
resetMetrics(s) == [s EXCEPT !.totalSignals = 0]

\* BaseStrategy.calculatePriceChange, in percent
calculatePriceChange(currentPrice, previousPrice) ==
    IF Falsy(previousPrice) THEN Whole(0)
    ELSE RatMul(RatDiv(Whole(currentPrice - previousPrice), Whole(previousPrice)),
                Whole(PercentScale))

\* ---- GridTradingStrategy

\* calculateGridLevels(basePrice): gridLevels[i] of the code is element i + 1
calculateGridLevels(config, basePrice) ==
    LET numLevels == config.levels
        range == RatSub(config.rangeMax, config.rangeMin)
        step == RatDiv(range, Whole(numLevels - 1))
    IN [k \in 1 .. numLevels |->
          LET i == k - 1
              multiplier == RatAdd(config.rangeMin, RatMul(step, Whole(i)))
          IN [ levelIndex |-> i,
               price |-> RatMul(Whole(basePrice), RatAdd(Whole(1), multiplier)),
               multiplier |-> multiplier,
               action |-> IF multiplier.num < 0 THEN "buy"
                          ELSE IF multiplier.num > 0 THEN "sell" ELSE "neutral",
               amountPercent |-> config.amountPerLevel,
               isTriggered |-> FALSE ]]

\* initialize(basePrice) at clock t
gridInitialize(g, basePrice, t) ==
    [g EXCEPT !.basePrice = basePrice,
              !.gridLevels = calculateGridLevels(g.config, basePrice),
              !.lastRebalance = t]

\* findClosestLevel(currentPrice): the index (from 1) of the first level at
\* the least distance, 0 for null
findClosestLevel(gridLevels, currentPrice) ==
    IF gridLevels = << >> THEN 0
    ELSE LET distance(k) == RatAbs(RatSub(Whole(currentPrice), gridLevels[k].price))
         IN CHOOSE k \in 1 .. Len(gridLevels) :
               \A j \in 1 .. Len(gridLevels) :
                   /\ j < k => RatLess(distance(k), distance(j))
                   /\ j > k => ~RatLess(distance(j), distance(k))

\* shouldRebalance() at clock t
shouldRebalance(g, t) ==
    IF Falsy(g.lastRebalance) THEN FALSE
    ELSE t - g.lastRebalance >= g.config.rebalanceInterval * MsPerSecond

\* rebalance(newBasePrice) at clock t
rebalance(g, newBasePrice, t) ==
    LET priceChange == calculatePriceChange(newBasePrice, g.basePrice)
    IN IF RatLess(RatAbs(priceChange), Whole(GridRebalancePercent)) THEN g
       ELSE [g EXCEPT !.gridLevels = calculateGridLevels(g.config, newBasePrice),
                      !.basePrice = newBasePrice,
                      !.lastRebalance = t]

GridSignal(level, currentPrice) ==
    [ kind |-> "signal", action |-> level.action, confidence |-> Rat(8, 10),
      price |-> currentPrice, levelIndex |-> level.levelIndex,
      amountPercent |-> level.amountPercent ]

gridAnalyze_IgnoresTriggered(g, price, t) ==
    IF ~g.isActive THEN [strategy |-> g, result |-> NullResult]
    ELSE LET g1 == IF Falsy(g.basePrice) THEN gridInitialize(g, price, t) ELSE g
             g2 == IF shouldRebalance(g1, t) THEN rebalance(g1, price, t) ELSE g1
             k == findClosestLevel(g2.gridLevels, price)
         IN IF k = 0 THEN [strategy |-> g2, result |-> NullResult]
            ELSE LET closestLevel == g2.gridLevels[k]
                     distance == RatAbs(RatDiv(RatSub(Whole(price), closestLevel.price),
                                               closestLevel.price))
                 IN IF RatLess(distance, Rat(GridSignalDistance, 10 * PercentScale))
                    THEN [ strategy |-> recordSignal(
                                [g2 EXCEPT !.gridLevels[k].isTriggered = TRUE]),
                           result |-> GridSignal(closestLevel, price) ]
                    ELSE [strategy |-> g2, result |-> NullResult]

\* GridTradingStrategy.analyze(marketData) at clock t; it reads marketData.price
gridAnalyze(g, price, t) ==
    IF ~g.isActive THEN [strategy |-> g, result |-> NullResult]
    ELSE LET g1 == IF Falsy(g.basePrice) THEN gridInitialize(g, price, t) ELSE g
             g2 == IF shouldRebalance(g1, t) THEN rebalance(g1, price, t) ELSE g1
             k == findClosestLevel(g2.gridLevels, price)
         IN IF k = 0 THEN [strategy |-> g2, result |-> NullResult]
            ELSE LET closestLevel == g2.gridLevels[k]
                     distance == RatAbs(RatDiv(RatSub(Whole(price), closestLevel.price),
                                               closestLevel.price))
                 IN IF RatLess(distance, Rat(GridSignalDistance, 10 * PercentScale))
                       /\ ~closestLevel.isTriggered
                    THEN [ strategy |-> recordSignal(
                                [g2 EXCEPT !.gridLevels[k].isTriggered = TRUE]),
                           result |-> GridSignal(closestLevel, price) ]
                    ELSE [strategy |-> g2, result |-> NullResult]

\* GridTradingStrategy.reset()
gridReset(g) ==
    resetMetrics([g EXCEPT !.gridLevels = << >>, !.basePrice = Null,
                           !.lastRebalance = Null])

\* ---- indicators/rsi.js

RECURSIVE SeqSum(_)
SeqSum(s) == IF s = << >> THEN 0 ELSE Head(s) + SeqSum(Tail(s))

\* Array.prototype.slice(-n): the last n elements, all of them when fewer
LastN(s, n) == SubSeq(s, Max(1, Len(s) - n + 1), Len(s))

\* calculateRSI's null (too few prices)
NullRSI == [num |-> 0 - 1, den |-> 0]

\* calculateRSI(prices, period)
calculateRSI(prices, period) ==
    IF Len(prices) < period + 1 THEN NullRSI
    ELSE LET changes == [i \in 1 .. (Len(prices) - 1) |-> prices[i + 1] - prices[i]]
             gains == [i \in DOMAIN changes |-> IF changes[i] > 0 THEN changes[i] ELSE 0]
             losses == [i \in DOMAIN changes |-> IF changes[i] < 0 THEN Abs(changes[i]) ELSE 0]
             avgGain == Rat(SeqSum(LastN(gains, period)), period)
             avgLoss == Rat(SeqSum(LastN(losses, period)), period)
         IN IF avgLoss.num = 0 THEN Whole(PercentScale)
            ELSE LET rs == RatDiv(avgGain, avgLoss)
                 IN RatSub(Whole(PercentScale),
                           RatDiv(Whole(PercentScale), RatAdd(Whole(1), rs)))

\* ---- MomentumStrategy

\* Program constants of the momentum strategy
MomentumEntryThreshold == 5
MomentumExitThreshold == 3
MomentumVolumeMultiplier == 2
LookbackPeriod == 20
RsiEntry == 30
RsiExit == 70
HistoryMargin == 10
RsiPeriod == 14
RsiEntryMargin == 40

\* config.strategies.momentum (core/config.js): the defaults
DefaultMomentumConfig ==
    [ entryThreshold |-> Rat(MomentumEntryThreshold, PercentScale),
      exitThreshold |-> Rat(MomentumExitThreshold, PercentScale),
      volumeMultiplier |-> MomentumVolumeMultiplier,
      lookbackPeriod |-> LookbackPeriod,
      rsiEntry |-> RsiEntry, rsiExit |-> RsiExit ]

\* new MomentumStrategy()
NewMomentumStrategy ==
    [ name |-> "Momentum", config |-> DefaultMomentumConfig, isActive |-> FALSE,
      currentPosition |-> "null", totalSignals |-> 0,
      priceHistory |-> << >>, volumeHistory |-> << >>,
      entryPrice |-> Null, highestPrice |-> Null ]

\* the same push, but dropping the newest entry instead of the oldest
PushBounded_DropsNewest(history, x, maxHistory) ==
    LET pushed == Append(history, x)
    IN IF Len(pushed) > maxHistory THEN SubSeq(pushed, 1, Len(pushed) - 1) ELSE pushed

\* push, then shift when longer than maxHistory
PushBounded(history, x, maxHistory) ==
    LET pushed == Append(history, x)
    IN IF Len(pushed) > maxHistory THEN Tail(pushed) ELSE pushed

\* updateHistory(marketData)
updateHistory(m, price, volume) ==
    LET maxHistory == m.config.lookbackPeriod + HistoryMargin
    IN [m EXCEPT !.priceHistory = PushBounded(@, price, maxHistory),
                 !.volumeHistory = PushBounded(@, volume, maxHistory)]

\* calculateRecentPriceChange(): a fraction, not a percentage
calculateRecentPriceChange(m) ==
    IF Len(m.priceHistory) < m.config.lookbackPeriod THEN Whole(0)
    ELSE LET recentPrices == LastN(m.priceHistory, m.config.lookbackPeriod)
             oldestPrice == recentPrices[1]
             latestPrice == recentPrices[Len(recentPrices)]
         IN RatDiv(Whole(latestPrice - oldestPrice), Whole(oldestPrice))

\* calculateAverageVolume()
calculateAverageVolume(m) ==
    IF Len(m.volumeHistory) = 0 THEN Whole(0)
    ELSE Rat(SeqSum(m.volumeHistory), Len(m.volumeHistory))

BuySignal(currentPrice, priceChange, rsi, volume) ==
    [ kind |-> "signal", action |-> "buy", confidence |-> Rat(85, PercentScale),
      price |-> currentPrice, rsi |-> rsi, priceChange |-> priceChange,
      volume |-> volume ]

SellSignal(currentPrice, rsi, pnl) ==
    [ kind |-> "signal", action |-> "sell", confidence |-> Rat(85, PercentScale),
      price |-> currentPrice, rsi |-> rsi, pnl |-> pnl ]

findEntrySignal_IgnoresVolume(m, currentPrice, priceChange, rsi, isHighVolume, volume) ==
    IF RatLess(m.config.entryThreshold, priceChange)
       /\ RatLess(rsi, Whole(m.config.rsiEntry + RsiEntryMargin))
    THEN [ strategy |-> recordSignal([m EXCEPT !.entryPrice = currentPrice,
                                               !.highestPrice = currentPrice]),
           result |-> BuySignal(currentPrice, priceChange, rsi, volume) ]
    ELSE [strategy |-> m, result |-> NullResult]

\* findEntrySignal(currentPrice, priceChange, rsi, isHighVolume, marketData)
findEntrySignal(m, currentPrice, priceChange, rsi, isHighVolume, volume) ==
    IF RatLess(m.config.entryThreshold, priceChange)
       /\ isHighVolume
       /\ RatLess(rsi, Whole(m.config.rsiEntry + RsiEntryMargin))
    THEN [ strategy |-> recordSignal([m EXCEPT !.entryPrice = currentPrice,
                                               !.highestPrice = currentPrice]),
           result |-> BuySignal(currentPrice, priceChange, rsi, volume) ]
    ELSE [strategy |-> m, result |-> NullResult]

\* findExitSignal(currentPrice, priceChange, rsi); a null highestPrice or
\* entryPrice counts as 0 in the comparison and the divisions
findExitSignal(m, currentPrice, priceChange, rsi) ==
    LET highest == IF currentPrice > Max(m.highestPrice, 0)
                   THEN currentPrice ELSE m.highestPrice
        m1 == [m EXCEPT !.highestPrice = highest]
        dropFromPeak == RatDiv(Whole(highest - currentPrice), Whole(highest))
    IN IF RatLess(m.config.exitThreshold, dropFromPeak)
          \/ RatLess(Whole(m.config.rsiExit), rsi)
       THEN LET entry == Max(m.entryPrice, 0)
                pnl == RatMul(RatDiv(Whole(currentPrice - entry), Whole(entry)),
                              Whole(PercentScale))
            IN [ strategy |-> recordSignal([m1 EXCEPT !.entryPrice = Null,
                                                      !.highestPrice = Null]),
                 result |-> SellSignal(currentPrice, rsi, pnl) ]
       ELSE [strategy |-> m1, result |-> NullResult]

\* MomentumStrategy.analyze(marketData); it reads marketData.price and .volume
momentumAnalyze(m, price, volume) ==
    IF ~m.isActive THEN [strategy |-> m, result |-> NullResult]
    ELSE LET m1 == updateHistory(m, price, volume)
         IN IF Len(m1.priceHistory) < m1.config.lookbackPeriod
            THEN [strategy |-> m1, result |-> NullResult]
            ELSE LET rsi == calculateRSI(m1.priceHistory, RsiPeriod)
                     avgVolume == calculateAverageVolume(m1)
                     priceChange == calculateRecentPriceChange(m1)
                     isHighVolume ==
                         RatLess(RatMul(avgVolume, Whole(m1.config.volumeMultiplier)),
                                 Whole(volume))
                 IN IF ~strategyHasOpenPosition(m1)
                    THEN findEntrySignal(m1, price, priceChange, rsi, isHighVolume, volume)
                    ELSE findExitSignal(m1, price, priceChange, rsi)

\* MomentumStrategy.reset()
momentumReset(m) ==
    resetMetrics([m EXCEPT !.priceHistory = << >>, !.volumeHistory = << >>,
                           !.entryPrice = Null, !.highestPrice = Null])

\* ---- canTrade of the two strategies and BaseStrategy.validateMarketData

\* Program constants of the market checks and of StrategyManager
MinLiquidity == 75000
MinVolume24h == 25000
GridMaxVolatility == 15
MomentumMinVolatility == 5
SwitchCooldown == 300000
AutoVolatility == 15
AutoVolumeRatio == 15
TrendWindow == 10
TrendThreshold == 5

\* A market snapshot: price, volume, liquidity, timestamp and avgVolume are
\* numbers or Undefined; volatility is a rational or NoVolatility (left out);
\* priceHistory is a sequence (left out is the same as empty to its reader).

\* BaseStrategy.validateMarketData: no required field is falsy
validateMarketData(marketData) ==
    /\ ~Falsy(marketData.price)
    /\ ~Falsy(marketData.volume)
    /\ ~Falsy(marketData.liquidity)
    /\ ~Falsy(marketData.timestamp)

\* marketData.volatility && ...: present and not 0
HasVolatility(marketData) ==
    marketData.volatility # NoVolatility /\ marketData.volatility.num # 0

\* GridTradingStrategy.canTrade
gridCanTrade(marketData) ==
    IF ~validateMarketData(marketData) THEN FALSE
    ELSE IF HasVolatility(marketData)
            /\ RatLess(Rat(GridMaxVolatility, PercentScale), marketData.volatility)
         THEN FALSE
    ELSE IF marketData.liquidity < MinLiquidity THEN FALSE
    ELSE TRUE

\* MomentumStrategy.canTrade
momentumCanTrade(marketData) ==
    IF ~validateMarketData(marketData) THEN FALSE
    ELSE IF HasVolatility(marketData)
            /\ RatLess(marketData.volatility, Rat(MomentumMinVolatility, PercentScale))
         THEN FALSE
    ELSE IF marketData.volume < MinVolume24h THEN FALSE
    ELSE TRUE

\* ---- StrategyManager

\* new StrategyManager(): currentStrategy is "null" or the key under which
\* this.strategies holds the object
NewStrategyManager(defaultStrategy) ==
    [ currentStrategy |-> "null", defaultStrategy |-> defaultStrategy,
      lastSwitch |-> Null, switchCooldown |-> SwitchCooldown ]

\* this.strategies is an object literal: besides its own keys grid and
\* momentum, a lookup finds what Object.prototype has (constructor, toString,
\* ...), which is truthy and is no strategy
InheritedKeys == {"constructor"}

\* what a call threw (a TypeError: x.activate is not a function)
ThrowResult == [kind |-> "throw"]

\* the name field of what currentStrategy refers to
NameOf(key) ==
    CASE key = "grid" -> "Grid Trading"
      [] key = "momentum" -> "Momentum"
      [] OTHER -> "Object"

\* selectedStrategy.charAt(0).toUpperCase() + selectedStrategy.slice(1)
Capitalized(key) ==
    CASE key = "grid" -> "Grid"
      [] key = "momentum" -> "Momentum"

\* The world a StrategyManager call runs in
StratWorld ==
    [ manager |-> strategyManager, strategies |-> strategies, emitted |-> << >> ]

selectStrategy_NoCooldown(w, strategyName, t) ==
    IF strategyName \notin StrategyKeys \cup InheritedKeys
    THEN [w |-> w, result |-> BoolResult(FALSE)]
    ELSE IF w.manager.currentStrategy \in InheritedKeys
    THEN [w |-> w, result |-> ThrowResult]
    ELSE LET cur == w.manager.currentStrategy
             w1 == IF cur = "null" THEN w
                   ELSE [w EXCEPT !.strategies[cur] = deactivate(@)]
             w2 == [w1 EXCEPT !.manager.currentStrategy = strategyName]
         IN IF strategyName \in InheritedKeys
            THEN [w |-> w2, result |-> ThrowResult]
            ELSE LET w3 == Emit([w2 EXCEPT !.strategies[strategyName] = activate(@)],
                                "strategy.selected")
                     w4 == Emit([w3 EXCEPT !.manager.lastSwitch = t],
                                "strategy.selected")
                 IN [w |-> w4, result |-> BoolResult(TRUE)]

selectStrategy_KeepsPrevious(w, strategyName, t) ==
    IF ~Falsy(w.manager.lastSwitch)
       /\ t - w.manager.lastSwitch < w.manager.switchCooldown
    THEN [w |-> w, result |-> BoolResult(FALSE)]
    ELSE IF strategyName \notin StrategyKeys \cup InheritedKeys
    THEN [w |-> w, result |-> BoolResult(FALSE)]
    ELSE IF w.manager.currentStrategy \in InheritedKeys
    THEN [w |-> w, result |-> ThrowResult]
    ELSE LET w2 == [w EXCEPT !.manager.currentStrategy = strategyName]
         IN IF strategyName \in InheritedKeys
            THEN [w |-> w2, result |-> ThrowResult]
            ELSE LET w3 == Emit([w2 EXCEPT !.strategies[strategyName] = activate(@)],
                                "strategy.selected")
                     w4 == Emit([w3 EXCEPT !.manager.lastSwitch = t],
                                "strategy.selected")
                 IN [w |-> w4, result |-> BoolResult(TRUE)]

\* selectStrategy(strategyName, metadata) at clock t.  activate() emits
\* STRATEGY_SELECTED and selectStrategy emits it again.
selectStrategy(w, strategyName, t) ==
    IF ~Falsy(w.manager.lastSwitch)
       /\ t - w.manager.lastSwitch < w.manager.switchCooldown
    THEN [w |-> w, result |-> BoolResult(FALSE)]
    ELSE IF strategyName \notin StrategyKeys \cup InheritedKeys
    THEN [w |-> w, result |-> BoolResult(FALSE)]
    ELSE IF w.manager.currentStrategy \in InheritedKeys
    THEN [w |-> w, result |-> ThrowResult]
    ELSE LET cur == w.manager.currentStrategy
             w1 == IF cur = "null" THEN w
                   ELSE [w EXCEPT !.strategies[cur] = deactivate(@)]
             w2 == [w1 EXCEPT !.manager.currentStrategy = strategyName]
         IN IF strategyName \in InheritedKeys
            THEN [w |-> w2, result |-> ThrowResult]
            ELSE LET w3 == Emit([w2 EXCEPT !.strategies[strategyName] = activate(@)],
                                "strategy.selected")
                     w4 == Emit([w3 EXCEPT !.manager.lastSwitch = t],
                                "strategy.selected")
                 IN [w |-> w4, result |-> BoolResult(TRUE)]

\* forceSwitch after its selectStrategy call, which gave out
restoreOnFailure(originalSwitch, out) ==
    IF out.result.kind = "throw" THEN out
    ELSE IF ~out.result.value
    THEN [ w |-> [out.w EXCEPT !.manager.lastSwitch = originalSwitch],
           result |-> out.result ]
    ELSE out

\* forceSwitch(strategyName, reason) at clock t
forceSwitch(w, strategyName, t) ==
    restoreOnFailure(w.manager.lastSwitch,
                     selectStrategy([w EXCEPT !.manager.lastSwitch = Null],
                                    strategyName, t))

\* the mean of a non-empty sequence of prices
Average(s) == Rat(SeqSum(s), Len(s))

\* detectTrend(priceHistory)
detectTrend(priceHistory) ==
    IF Len(priceHistory) < TrendWindow THEN "insufficient_data"
    ELSE LET recent == LastN(priceHistory, TrendWindow)
             older == SubSeq(priceHistory, Max(1, Len(priceHistory) - 2 * TrendWindow + 1),
                             Len(priceHistory) - TrendWindow)
         IN IF Len(older) = 0 THEN "insufficient_data"
            ELSE LET avgRecent == Average(recent)
                     avgOlder == Average(older)
                     diff == RatDiv(RatSub(avgRecent, avgOlder), avgOlder)
                 IN IF RatLess(Rat(TrendThreshold, PercentScale), diff) THEN "uptrend"
                    ELSE IF RatLess(diff, Rat(0 - TrendThreshold, PercentScale))
                    THEN "downtrend"
                    ELSE "sideways"

\* marketData.volume / (marketData.avgVolume || marketData.volume)
VolumeRatio(marketData) ==
    IF marketData.volume = Undefined THEN NotFinite
    ELSE RatDiv(Whole(marketData.volume),
                Whole(IF Falsy(marketData.avgVolume) THEN marketData.volume
                      ELSE marketData.avgVolume))

\* the selectedStrategy that autoSelectStrategy computes
SelectedStrategy(marketData) ==
    LET volatility == IF HasVolatility(marketData) THEN marketData.volatility ELSE Whole(0)
        volumeRatio == VolumeRatio(marketData)
        trend == detectTrend(marketData.priceHistory)
    IN IF RatLess(Rat(AutoVolatility, PercentScale), volatility)
          /\ RatLess(Rat(AutoVolumeRatio, 10), volumeRatio)
          /\ trend # "sideways"
       THEN "momentum" ELSE "grid"

\* a caller that drops the value selectStrategy returned; what it threw goes on
DropResult(out) ==
    [w |-> out.w, result |-> IF out.result.kind = "throw" THEN ThrowResult ELSE NoResult]

\* autoSelectStrategy(marketData) at clock t
autoSelectStrategy(w, marketData, t) ==
    IF w.manager.currentStrategy = "null"
       \/ NameOf(w.manager.currentStrategy) # Capitalized(SelectedStrategy(marketData))
    THEN DropResult(selectStrategy(w, SelectedStrategy(marketData), t))
    ELSE [w |-> w, result |-> NoResult]

\* StrategyManager.initialize()
managerInitialize(w, t) ==
    IF w.manager.defaultStrategy = "auto" THEN [w |-> w, result |-> NoResult]
    ELSE DropResult(selectStrategy(w, w.manager.defaultStrategy, t))

canTrade(key, marketData) ==
    IF key = "grid" THEN gridCanTrade(marketData) ELSE momentumCanTrade(marketData)

\* the result of analyze when it called the grid's / the momentum's analyze,
\* which gave o
RoutedToGrid(w, o) ==
    [w |-> [w EXCEPT !.strategies.grid = o.strategy], result |-> o.result, ran |-> "grid"]
RoutedToMomentum(w, o) ==
    [ w |-> [w EXCEPT !.strategies.momentum = o.strategy], result |-> o.result,
      ran |-> "momentum" ]

\* StrategyManager.analyze after its automatic selection, which gave a
analyzeWithCurrent(a, marketData, t) ==
    IF a.result.kind = "throw"
    THEN [w |-> a.w, result |-> ThrowResult, ran |-> "none"]
    ELSE IF a.w.manager.currentStrategy = "null"
    THEN [w |-> a.w, result |-> NullResult, ran |-> "none"]
    ELSE IF a.w.manager.currentStrategy \in InheritedKeys
    THEN [w |-> a.w, result |-> ThrowResult, ran |-> "none"]
    ELSE IF ~canTrade(a.w.manager.currentStrategy, marketData)
    THEN [w |-> a.w, result |-> NullResult, ran |-> "none"]
    ELSE IF a.w.manager.currentStrategy = "grid"
    THEN RoutedToGrid(a.w, gridAnalyze(a.w.strategies.grid, marketData.price, t))
    ELSE RoutedToMomentum(a.w, momentumAnalyze(a.w.strategies.momentum,
                                               marketData.price, marketData.volume))

\* StrategyManager.analyze(marketData) at clock t; ran is the strategy whose
\* analyze was called
managerAnalyze(w, marketData, t) ==
    analyzeWithCurrent(IF w.manager.defaultStrategy = "auto"
                       THEN autoSelectStrategy(w, marketData, t)
                       ELSE [w |-> w, result |-> NoResult],
                       marketData, t)

\* StrategyManager.reset()
managerReset(w) ==
    [w EXCEPT !.strategies.grid = deactivate(gridReset(@)),
              !.strategies.momentum = deactivate(momentumReset(@)),
              !.manager.currentStrategy = "null",
              !.manager.lastSwitch = Null]

----------------------------------------------------------------------------
\* Inputs and actions of the strategy specifications

\* The clock: half a switch cooldown (and half a rebalance interval) a step
StepMs == SwitchCooldown \div 2
ClockStart == StepMs

\* prices handed to GridTradingStrategy.analyze: a base, 4% and exactly 5%
\* above it, and two prices near levels of the default grid of base 100
GridPrices == {100, 104, 105, 195, 199}

\* The quiet market of the first FlatSnapshots snapshots a MomentumStrategy
\* collects, and the prices and volumes of the snapshots after them
QuietPrice == 100
QuietVolume == 30000
MomentumPrices == {100, 106, 112}
MomentumVolumes == {QuietVolume, 3 * QuietVolume}

\* priceHistory fields of a snapshot: 20 prices, flat, 10% up, 10% down
FlatHistory == [i \in 1 .. 2 * TrendWindow |-> 100]
UpHistory == [i \in 1 .. 2 * TrendWindow |-> IF i <= TrendWindow THEN 100 ELSE 110]
DownHistory == [i \in 1 .. 2 * TrendWindow |-> IF i <= TrendWindow THEN 100 ELSE 90]

\* a quiet market: low volatility, usual volume, no trend
QuietSnapshot ==
    [ price |-> 100, volume |-> QuietVolume, liquidity |-> 100000,
      timestamp |-> ClockStart, volatility |-> Rat(10, PercentScale),
      avgVolume |-> QuietVolume, priceHistory |-> FlatHistory ]
\* a trending market: high volatility, three times the usual volume
TrendingSnapshot ==
    [QuietSnapshot EXCEPT !.volume = 3 * QuietVolume,
                          !.volatility = Rat(20, PercentScale),
                          !.priceHistory = UpHistory]

\* snapshots handed to StrategyManager
MarketSnapshots ==
    { QuietSnapshot,
      TrendingSnapshot,
      [TrendingSnapshot EXCEPT !.priceHistory = DownHistory],
      [TrendingSnapshot EXCEPT !.priceHistory = FlatHistory],
      [TrendingSnapshot EXCEPT !.priceHistory = << >>],
      [TrendingSnapshot EXCEPT !.avgVolume = Undefined],
      [QuietSnapshot EXCEPT !.volume = 0, !.volatility = NoVolatility],
      [QuietSnapshot EXCEPT !.price = Undefined] }

\* strategy names handed to selectStrategy and forceSwitch
StrategyNames == {"grid", "momentum", "scalping", "constructor"}
\* DEFAULT_STRATEGY is read from the environment (default auto)
DefaultStrategies == {"auto", "grid"}

NoSignals == [i \in 0 .. (GridLevels - 1) |-> 0]

\* the two strategies this.strategies holds after construction
NewStrategies(gridConfig) ==
    [grid |-> NewGridTradingStrategy(gridConfig), momentum |-> NewMomentumStrategy]

StrategiesIdle ==
    /\ strategyManager = NewStrategyManager("auto")
    /\ strategies = NewStrategies(DefaultGridConfig)
    /\ arrivals = << >>
    /\ signalled = NoSignals

\* signals per level of the current gridLevels array: a new array (basePrice
\* or lastRebalance written) starts the count again
SignalledAfter(g, g2, result) ==
    LET base == IF g2.basePrice # g.basePrice \/ g2.lastRebalance # g.lastRebalance
                THEN NoSignals ELSE signalled
    IN IF result.kind = "signal" /\ "levelIndex" \in DOMAIN result
       THEN [base EXCEPT ![result.levelIndex] = @ + 1]
       ELSE base

\* one call on the strategies: what it leaves and what is observed of it
StrategyStep(op, args, w, result, arrived) ==
    /\ strategyManager' = w.manager
    /\ strategies' = w.strategies
    /\ emitted' = w.emitted
    /\ lastOp' = op
    /\ lastArgs' = args
    /\ lastResult' = result
    /\ arrivals' = arrived
    /\ signalled' = SignalledAfter(strategies.grid, w.strategies.grid, result)
    /\ UNCHANGED <<ddVars, exitState, posVars, ioVars>>

Advance ==
    /\ now < ClockStart + MaxSteps * StepMs
    /\ now' = now + StepMs
    /\ lastOp' = "advance"
    /\ lastArgs' = NoArgs
    /\ lastResult' = NoResult
    /\ emitted' = << >>
    /\ UNCHANGED <<initialCapital, peakCapital, currentCapital, currentDrawdown,
                   maxDrawdownReached, triggeredLevels, isPaused, pauseUntil,
                   currentLevel, botAttached, isRunning, botPaused, exited,
                   timers, fireCount, pauseDeadlines, resets>>
    /\ UNCHANGED <<exitState, posVars, stratVars, ioVars>>

\* BaseStrategy.activate() on the strategy under key
Activate(key) ==
    StrategyStep("activate", [key |-> key],
                 Emit([StratWorld EXCEPT !.strategies[key] = activate(@)],
                      "strategy.selected"),
                 NoResult, arrivals)

\* BaseStrategy.deactivate()
Deactivate(key) ==
    StrategyStep("deactivate", [key |-> key],
                 [StratWorld EXCEPT !.strategies[key] = deactivate(@)],
                 NoResult, arrivals)

\* BaseStrategy.updatePosition(position)
StrategyUpdatePosition(key) ==
    StrategyStep("updatePosition", [key |-> key],
                 [StratWorld EXCEPT !.strategies[key] = strategyUpdatePosition(@)],
                 NoResult, arrivals)

\* BaseStrategy.clearPosition()
ClearPosition(key) ==
    StrategyStep("clearPosition", [key |-> key],
                 [StratWorld EXCEPT !.strategies[key] = clearPosition(@)],
                 NoResult, arrivals)

\* a call on one strategy that gave out
StrategyCall(op, args, key, out, arrived) ==
    StrategyStep(op, args, [StratWorld EXCEPT !.strategies[key] = out.strategy],
                 out.result, arrived)

\* a call on the manager that gave out
ManagerCall(op, args, out, arrived) ==
    StrategyStep(op, args, out.w, out.result, arrived)

GridAnalyze(price) ==
    StrategyCall("gridAnalyze", [price |-> price], "grid",
                 gridAnalyze(strategies.grid, price, now), arrivals)

GridReset ==
    StrategyStep("gridReset", NoArgs,
                 [StratWorld EXCEPT !.strategies.grid = gridReset(@)],
                 NoResult, arrivals)

\* analyze on the momentum strategy; the first FlatSnapshots snapshots it
\* collects are quiet
MomentumAnalyze(price, volume) ==
    /\ Len(arrivals) < MaxSnapshots
    /\ Len(arrivals) < FlatSnapshots => price = QuietPrice /\ volume = QuietVolume
    /\ StrategyCall("momentumAnalyze", [price |-> price, volume |-> volume],
                    "momentum", momentumAnalyze(strategies.momentum, price, volume),
                    IF strategies.momentum.isActive
                    THEN Append(arrivals, [price |-> price, volume |-> volume])
                    ELSE arrivals)

MomentumReset ==
    StrategyStep("momentumReset", NoArgs,
                 [StratWorld EXCEPT !.strategies.momentum = momentumReset(@)],
                 NoResult, << >>)

Initialize ==
    ManagerCall("initialize", NoArgs, managerInitialize(StratWorld, now), arrivals)

SelectStrategy(strategyName) ==
    ManagerCall("selectStrategy", [strategyName |-> strategyName],
                selectStrategy(StratWorld, strategyName, now), arrivals)

ForceSwitch(strategyName) ==
    ManagerCall("forceSwitch", [strategyName |-> strategyName],
                forceSwitch(StratWorld, strategyName, now), arrivals)

AutoSelectStrategy(marketData) ==
    ManagerCall("autoSelectStrategy", [marketData |-> marketData],
                autoSelectStrategy(StratWorld, marketData, now), arrivals)

\* StrategyManager.analyze gave out; ran is the strategy whose analyze it called
AnalyzeCall(marketData, out) ==
    StrategyStep("analyze", [marketData |-> marketData, ran |-> out.ran],
                 out.w, out.result,
                 IF out.ran = "momentum" /\ out.w.strategies.momentum.isActive
                 THEN Append(arrivals, [price |-> marketData.price,
                                        volume |-> marketData.volume])
                 ELSE arrivals)

ManagerAnalyze(marketData) ==
    /\ Len(arrivals) < MaxRouted
    /\ AnalyzeCall(marketData, managerAnalyze(StratWorld, marketData, now))

ManagerReset ==
    StrategyStep("reset", NoArgs, managerReset(StratWorld), NoResult, << >>)


----------------------------------------------------------------------------
\* StorageManager (src/data/storage.js): the trading cycle being recorded.
\*
\* A field that holds a number or null and whose number may be negative
\* (finalCapital, pnl, pnlPercent, winRate, profitFactor) is an exact
\* rational or NoNumber.  A trade is [side, pnlIsNull, pnl]: trade.pnl is
\* null when pnlIsNull, and pnl is then 0, which compares with 0 as null
\* does (null > 0 and null < 0 are both false).  The cycle's network and
\* strategy labels are left out: no operation reads them.

MaxTrades == 5         \* addTrade calls explored per cycle

NoNumber == [null |-> TRUE]
NoCycle == [cycleId |-> Null]

\* !x for such a field: null, 0 and NaN are falsy
RatFalsy(x) == x = NoNumber \/ x.num = 0

Buy == [side |-> "buy", pnlIsNull |-> TRUE, pnl |-> 0]
Sell(pnl) == [side |-> "sell", pnlIsNull |-> FALSE, pnl |-> pnl]
WinPnl == 5
LossPnl == 0 - 3
Trades == {Buy, Sell(WinPnl), Sell(LossPnl), Sell(0)}

IsWin(trade) == trade.pnl > 0
IsLoss(trade) == trade.pnl < 0
HasPnl(trade) == ~trade.pnlIsNull

RECURSIVE pnlTotal(_)
pnlTotal(trades) ==
    IF trades = << >> THEN 0 ELSE Head(trades).pnl + pnlTotal(Tail(trades))

\* the forEach of calculateMetrics: [wins, losses, maxWins, maxLosses]
RECURSIVE consecutive(_, _)
consecutive(trades, c) ==
    IF trades = << >> THEN c
    ELSE consecutive(Tail(trades),
             IF IsWin(Head(trades))
             THEN [wins |-> c.wins + 1, losses |-> 0,
                   maxWins |-> Max(c.maxWins, c.wins + 1), maxLosses |-> c.maxLosses]
             ELSE IF IsLoss(Head(trades))
             THEN [wins |-> 0, losses |-> c.losses + 1,
                   maxWins |-> c.maxWins, maxLosses |-> Max(c.maxLosses, c.losses + 1)]
             ELSE c)

NewStorageManager ==
    [currentCycle |-> NoCycle, currentCycleFile |-> Null, written |-> NoCycle]

generateCycleId(timestamp) == timestamp \div MsPerSecond

NewCycle(timestamp) ==
    [cycleId |-> generateCycleId(timestamp),
     startTime |-> timestamp,
     endTime |-> Null,
     durationSeconds |-> Null,
     initialCapital |-> Whole(DefaultInitialCapital),
     finalCapital |-> NoNumber,
     pnl |-> NoNumber,
     pnlPercent |-> NoNumber,
     totalTrades |-> 0,
     winningTrades |-> 0,
     losingTrades |-> 0,
     winRate |-> NoNumber,
     maxDrawdown |-> 0,
     trades |-> << >>,
     events |-> << >>,
     metrics |-> [avgTradeSize |-> Whole(0), avgProfit |-> Whole(0),
                  avgLoss |-> Whole(0), profitFactor |-> NoNumber,
                  sharpeRatio |-> NoNumber,
                  maxConsecutiveWins |-> 0, maxConsecutiveLosses |-> 0]]

\* saveCycle(): writes the current cycle to its file, when there is one
saveCycle(s) ==
    IF s.currentCycle = NoCycle \/ s.currentCycleFile = Null THEN s
    ELSE [s EXCEPT !.written = s.currentCycle]

startNewCycle(s, timestamp) ==
    saveCycle([s EXCEPT !.currentCycle = NewCycle(timestamp),
                        !.currentCycleFile = generateCycleId(timestamp)])

countTrade_LossesAreWinsToo(c, trade) ==
    [c EXCEPT !.trades = Append(@, trade),
              !.totalTrades = @ + 1,
              !.winningTrades = IF trade.pnl # 0 THEN @ + 1 ELSE @,
              !.losingTrades = IF ~IsWin(trade) /\ IsLoss(trade) THEN @ + 1 ELSE @]

\* the counters of addTrade, on the cycle c
countTrade(c, trade) ==
    [c EXCEPT !.trades = Append(@, trade),
              !.totalTrades = @ + 1,
              !.winningTrades = IF IsWin(trade) THEN @ + 1 ELSE @,
              !.losingTrades = IF ~IsWin(trade) /\ IsLoss(trade) THEN @ + 1 ELSE @]

creditTrade(c, trade) ==
    IF trade.side = "sell" /\ HasPnl(trade)
    THEN [c EXCEPT !.finalCapital =
              RatAdd(IF RatFalsy(c.finalCapital) THEN c.initialCapital
                     ELSE c.finalCapital,
                     Whole(trade.pnl))]
    ELSE c

addTrade(s, trade) ==
    IF s.currentCycle = NoCycle THEN s
    ELSE saveCycle([s EXCEPT !.currentCycle =
                        creditTrade(countTrade(@, trade), trade)])

calculateMetrics(c) ==
    LET trades == SelectSeq(c.trades, HasPnl)
        profits == SelectSeq(trades, IsWin)
        losses == SelectSeq(trades, IsLoss)
        totalProfit == pnlTotal(profits)
        totalLoss == Abs(pnlTotal(losses))
        runs == consecutive(trades, [wins |-> 0, losses |-> 0,
                                     maxWins |-> 0, maxLosses |-> 0])
    IN  IF trades = << >> THEN c
        ELSE [c EXCEPT
                !.metrics.avgTradeSize = Rat(0, Len(trades)),
                !.metrics.avgProfit =
                    IF Len(profits) > 0 THEN Rat(totalProfit, Len(profits)) ELSE @,
                !.metrics.avgLoss =
                    IF Len(losses) > 0 THEN Rat(totalLoss, Len(losses)) ELSE @,
                !.metrics.profitFactor =
                    IF totalLoss > 0 THEN Rat(totalProfit, totalLoss) ELSE @,
                !.metrics.maxConsecutiveWins = runs.maxWins,
                !.metrics.maxConsecutiveLosses = runs.maxLosses]

\* the win rate finalizeCycle stores for the counters of c
winRateOf(c) ==
    IF c.totalTrades > 0 THEN Rat(PercentScale * c.winningTrades, c.totalTrades)
    ELSE c.winRate

\* the cycle as finalizeCycle leaves it before it is saved and returned
finalCycle(c, endTime) ==
    LET finalCapital == IF RatFalsy(c.finalCapital) THEN c.initialCapital
                        ELSE c.finalCapital
        pnl == RatSub(finalCapital, c.initialCapital)
    IN  calculateMetrics(
            [c EXCEPT !.endTime = endTime,
                      !.durationSeconds = (endTime - c.startTime) \div MsPerSecond,
                      !.finalCapital = finalCapital,
                      !.pnl = pnl,
                      !.pnlPercent = RatMul(RatDiv(pnl, c.initialCapital),
                                            Whole(PercentScale)),
                      !.winRate = winRateOf(c)])

\* finalizeCycle(): [s, result]
finalizeCycle(s, endTime) ==
    IF s.currentCycle = NoCycle THEN [s |-> s, result |-> NullResult]
    ELSE LET saved == saveCycle([s EXCEPT !.currentCycle = finalCycle(@, endTime)])
         IN  [s |-> [saved EXCEPT !.currentCycle = NoCycle,
                                  !.currentCycleFile = Null],
              result |-> [kind |-> "cycle", value |-> saved.currentCycle]]

StorageCall(op, args, s, result) ==
    /\ storage' = s
    /\ lastOp' = op
    /\ lastArgs' = args
    /\ lastResult' = result
    /\ emitted' = << >>
    /\ UNCHANGED <<ddVars, exitState, posVars, stratVars, wallet>>

StartNewCycle ==
    StorageCall("startNewCycle", NoArgs, startNewCycle(storage, now), NoResult)

AddTrade(trade) ==
    /\ storage.currentCycle # NoCycle => Len(storage.currentCycle.trades) < MaxTrades
    /\ StorageCall("addTrade", [trade |-> trade], addTrade(storage, trade), NoResult)

FinalizeCycle ==
    LET out == finalizeCycle(storage, now)
    IN  StorageCall("finalizeCycle", NoArgs, out.s, out.result)

----------------------------------------------------------------------------
\* WalletManager.sendTransaction(tx, retries) (src/blockchain/wallet.js
\* 186-211), an async function, as a process.  It runs up to its first await
\* when it is called; from there it moves when the promise of
\* signer.sendTransaction settles or when the setTimeout of the backoff
\* fires.  The response of the submission number k is k and its error is k.
\* submitted and delays are observation: the outcomes of the calls of
\* signer.sendTransaction and the delays handed to setTimeout, in order.

MaxRetries == 3        \* largest retries argument explored
MaxCalls == 3          \* sendTransaction calls explored, one after the other

BackoffBaseMs == 2000
Retries == 0 .. MaxRetries

RECURSIVE Pow2(_)
Pow2(i) == IF i = 0 THEN 1 ELSE 2 * Pow2(i - 1)

backoffDelay(i) == BackoffBaseMs * Pow2(i)

NewWallet ==
    [pc |-> "idle", retries |-> 0, i |-> 0, lastError |-> Undefined,
     wakeAt |-> Null, response |-> Null, thrown |-> Null,
     submitted |-> << >>, delays |-> << >>, calls |-> 0]

\* the head of the for loop at index i: the next submission, or the throw
loopTest_OneMore(w, i) ==
    IF i <= w.retries
    THEN [w EXCEPT !.pc = "submitting", !.i = i]
    ELSE [w EXCEPT !.pc = "thrown", !.i = i, !.thrown = w.lastError]
loopTest(w, i) ==
    IF i < w.retries
    THEN [w EXCEPT !.pc = "submitting", !.i = i]
    ELSE [w EXCEPT !.pc = "thrown", !.i = i, !.thrown = w.lastError]

\* the call, up to its first await
sendTransaction(w, retries) ==
    loopTest([w EXCEPT !.retries = retries, !.lastError = Undefined,
                       !.wakeAt = Null, !.response = Null, !.thrown = Null,
                       !.submitted = << >>, !.delays = << >>,
                       !.calls = @ + 1], 0)

\* the promise of signer.sendTransaction resolves: return txResponse
resolved(w) ==
    [w EXCEPT !.pc = "returned", !.response = w.i + 1,
              !.submitted = Append(@, "ok")]

\* it rejects: the catch block, then the wait or the next turn of the loop
rejected(w, t) ==
    LET failed == [w EXCEPT !.lastError = w.i + 1,
                            !.submitted = Append(@, "error")]
    IN  IF w.i < w.retries - 1
        THEN [failed EXCEPT !.pc = "waiting",
                            !.wakeAt = t + backoffDelay(w.i),
                            !.delays = Append(@, backoffDelay(w.i))]
        ELSE loopTest(failed, w.i + 1)

\* the timer of the backoff fires: i++ and the head of the loop
resumed(w) == loopTest([w EXCEPT !.wakeAt = Null], w.i + 1)

WalletResult(w) ==
    IF w.pc = "returned" THEN [kind |-> "response", value |-> w.response]
    ELSE IF w.pc = "thrown" THEN [kind |-> "thrown", value |-> w.thrown]
    ELSE NoResult

WalletStep(op, w) ==
    /\ wallet' = w
    /\ lastOp' = op
    /\ lastArgs' = NoArgs
    /\ lastResult' = WalletResult(w)
    /\ emitted' = << >>
    /\ UNCHANGED <<ddVars, exitState, posVars, stratVars, storage>>

SendTransaction(retries) ==
    /\ wallet.pc \in {"idle", "returned", "thrown"}
    /\ wallet.calls < MaxCalls
    /\ WalletStep("sendTransaction", sendTransaction(wallet, retries))

SubmissionResolves ==
    /\ wallet.pc = "submitting"
    /\ WalletStep("resolved", resolved(wallet))

SubmissionRejects ==
    /\ wallet.pc = "submitting"
    /\ WalletStep("rejected", rejected(wallet, now))

\* time passes while the function waits for its timer
WalletTick ==
    /\ wallet.pc = "waiting"
    /\ now < wallet.wakeAt
    /\ now' = now + BackoffBaseMs
    /\ lastOp' = "tick"
    /\ lastArgs' = NoArgs
    /\ lastResult' = NoResult
    /\ emitted' = << >>
    /\ UNCHANGED <<initialCapital, peakCapital, currentCapital, currentDrawdown,
                   maxDrawdownReached, triggeredLevels, isPaused, pauseUntil,
                   currentLevel, botAttached, isRunning, botPaused, exited,
                   timers, fireCount, pauseDeadlines, resets>>
    /\ UNCHANGED <<exitState, posVars, stratVars, ioVars>>

BackoffTimerFires ==
    /\ wallet.pc = "waiting"
    /\ now >= wallet.wakeAt
    /\ WalletStep("timer", resumed(wallet))

IoIdle ==
    /\ storage = NewStorageManager
    /\ wallet = NewWallet

----------------------------------------------------------------------------
Init ==
    /\ initialCapital \in InitialCapitals
    /\ peakCapital = initialCapital
    /\ currentCapital = initialCapital
    /\ currentDrawdown = Zero
    /\ maxDrawdownReached = Zero
    /\ triggeredLevels = << >>
    /\ isPaused = FALSE
    /\ pauseUntil = Null
    /\ currentLevel = Null
    /\ botAttached \in BOOLEAN
    /\ isRunning = FALSE
    /\ botPaused = FALSE
    /\ exited = FALSE
    /\ now = 0
    /\ timers = EmptyBag
    /\ activeExits = NoExits
    /\ takeProfitPercents = DefaultTakeProfitPercents
    /\ lastArgs = NoArgs
    /\ maxSeen = NoExits
    /\ eventData = << >>
    /\ stopReached = NoExits
    /\ positionCapital = Whole(initialCapital)
    /\ openPositions = NoPositions
    /\ maxPositionPercent = DefaultMaxPositionPercent
    /\ investedBy = NoPositions
    /\ gated = FALSE
    /\ disciplined = TRUE
    /\ opens = 0
    /\ lastOp = "init"
    /\ lastResult = NoResult
    /\ emitted = << >>
    /\ fireCount = [i \in LevelIndexes |-> 0]
    /\ pauseDeadlines = {}
    /\ resets = 0
    /\ StrategiesIdle
    /\ IoIdle

Next ==
    \/ Tick
    \/ \E t \in BagToSet(timers) : TimerFire(t)
    \/ \E c \in CapitalValues : UpdateCapital(c)
    \/ IsTradingPaused
    \/ ResumeTrading
    \/ Reset
    \/ BotStart
    \/ BotStop
    \/ \E d \in {Null, Level1Duration, Level2Duration} : BotPause(d)
    \/ BotResume

Spec == Init /\ [][Next]_vars

\* The exit manager on its own: the drawdown manager idle at its initial state
InitExit ==
    /\ initialCapital = DefaultInitialCapital
    /\ peakCapital = initialCapital
    /\ currentCapital = initialCapital
    /\ currentDrawdown = Zero
    /\ maxDrawdownReached = Zero
    /\ triggeredLevels = << >>
    /\ isPaused = FALSE
    /\ pauseUntil = Null
    /\ currentLevel = Null
    /\ botAttached = FALSE
    /\ isRunning = FALSE
    /\ botPaused = FALSE
    /\ exited = FALSE
    /\ now = 0
    /\ timers = EmptyBag
    /\ activeExits = NoExits
    /\ takeProfitPercents \in TakeProfitConfigs
    /\ lastArgs = NoArgs
    /\ maxSeen = NoExits
    /\ eventData = << >>
    /\ stopReached = NoExits
    /\ positionCapital = Whole(initialCapital)
    /\ openPositions = NoPositions
    /\ maxPositionPercent = DefaultMaxPositionPercent
    /\ investedBy = NoPositions
    /\ gated = FALSE
    /\ disciplined = TRUE
    /\ opens = 0
    /\ lastOp = "init"
    /\ lastResult = NoResult
    /\ emitted = << >>
    /\ fireCount = [i \in LevelIndexes |-> 0]
    /\ pauseDeadlines = {}
    /\ resets = 0
    /\ StrategiesIdle
    /\ IoIdle

NextExit ==
    \/ \E pair \in Pairs, entryPrice \in EntryPrices : StartManaging(pair, entryPrice)
    \/ \E pair \in Pairs, currentPrice \in Prices, atTarget \in BOOLEAN :
          ExitUpdate(pair, currentPrice, atTarget)
    \/ \E pair \in Pairs : StopManaging(pair)
    \/ \E pair \in Pairs : GetExitState(pair)
    \/ ExitReset

SpecExit == InitExit /\ [][NextExit]_vars

\* The position manager on its own: the other managers idle
InitPos ==
    /\ initialCapital = DefaultInitialCapital
    /\ peakCapital = initialCapital
    /\ currentCapital = initialCapital
    /\ currentDrawdown = Zero
    /\ maxDrawdownReached = Zero
    /\ triggeredLevels = << >>
    /\ isPaused = FALSE
    /\ pauseUntil = Null
    /\ currentLevel = Null
    /\ botAttached = FALSE
    /\ isRunning = FALSE
    /\ botPaused = FALSE
    /\ exited = FALSE
    /\ now = 0
    /\ timers = EmptyBag
    /\ activeExits = NoExits
    /\ takeProfitPercents = DefaultTakeProfitPercents
    /\ lastArgs = NoArgs
    /\ maxSeen = NoExits
    /\ eventData = << >>
    /\ stopReached = NoExits
    /\ positionCapital = Whole(initialCapital)
    /\ openPositions = NoPositions
    /\ maxPositionPercent \in MaxPositionPercents
    /\ investedBy = NoPositions
    /\ gated = FALSE
    /\ disciplined = TRUE
    /\ opens = 0
    /\ lastOp = "init"
    /\ lastResult = NoResult
    /\ emitted = << >>
    /\ fireCount = [i \in LevelIndexes |-> 0]
    /\ pauseDeadlines = {}
    /\ resets = 0
    /\ StrategiesIdle
    /\ IoIdle

NextPos ==
    \/ \E pair \in Pairs, entryPrice \in PositionPrices, amountUSD \in CallerAmounts :
          OpenPosition(pair, entryPrice, Whole(amountUSD), Rat(amountUSD, entryPrice))
    \/ \E pair \in Pairs :
          /\ lastOp = "calculatePositionSize" /\ gated
          /\ OpenPosition(pair, lastArgs.price, lastResult.amountUSD,
                          lastResult.amountToken)
    \/ \E pair \in Pairs, currentPrice \in MarketPrices : UpdatePosition(pair, currentPrice)
    \/ \E pair \in Pairs, exitPrice \in ExitPrices : ClosePosition(pair, exitPrice)
    \/ GetAvailableCapital
    \/ CanOpenPosition
    \/ \E currentPrice \in PositionPrices, volatility \in Volatilities :
          CalculatePositionSize(currentPrice, volatility)
    \/ PositionReset

SpecPos == InitPos /\ [][NextPos]_vars

\* The risk engine idle, as constructed with the default configuration
RiskIdle ==
    /\ initialCapital = DefaultInitialCapital
    /\ peakCapital = initialCapital
    /\ currentCapital = initialCapital
    /\ currentDrawdown = Zero
    /\ maxDrawdownReached = Zero
    /\ triggeredLevels = << >>
    /\ isPaused = FALSE
    /\ pauseUntil = Null
    /\ currentLevel = Null
    /\ botAttached = FALSE
    /\ isRunning = FALSE
    /\ botPaused = FALSE
    /\ exited = FALSE
    /\ timers = EmptyBag
    /\ activeExits = NoExits
    /\ takeProfitPercents = DefaultTakeProfitPercents
    /\ lastArgs = NoArgs
    /\ maxSeen = NoExits
    /\ eventData = << >>
    /\ stopReached = NoExits
    /\ positionCapital = Whole(initialCapital)
    /\ openPositions = NoPositions
    /\ maxPositionPercent = DefaultMaxPositionPercent
    /\ investedBy = NoPositions
    /\ gated = FALSE
    /\ disciplined = TRUE
    /\ opens = 0
    /\ lastOp = "init"
    /\ lastResult = NoResult
    /\ emitted = << >>
    /\ fireCount = [i \in LevelIndexes |-> 0]
    /\ pauseDeadlines = {}
    /\ resets = 0

\* The strategy manager with its two strategies
InitStrat ==
    /\ RiskIdle
    /\ IoIdle
    /\ now = ClockStart
    /\ \E d \in DefaultStrategies : strategyManager = NewStrategyManager(d)
    /\ strategies = NewStrategies(DefaultGridConfig)
    /\ arrivals = << >>
    /\ signalled = NoSignals

NextStrat ==
    \/ Advance
    \/ Initialize
    \/ \E strategyName \in StrategyNames : SelectStrategy(strategyName)
    \/ \E strategyName \in StrategyNames : ForceSwitch(strategyName)
    \/ \E marketData \in MarketSnapshots : AutoSelectStrategy(marketData)
    \/ \E marketData \in MarketSnapshots : ManagerAnalyze(marketData)
    \/ ManagerReset

SpecStrat == InitStrat /\ [][NextStrat]_vars

\* A grid strategy used on its own
InitGrid ==
    /\ RiskIdle
    /\ IoIdle
    /\ now = ClockStart
    /\ strategyManager = NewStrategyManager("auto")
    /\ \E config \in GridConfigs : strategies = NewStrategies(config)
    /\ arrivals = << >>
    /\ signalled = NoSignals

NextGrid ==
    \/ Advance
    \/ Activate("grid")
    \/ Deactivate("grid")
    \/ \E price \in GridPrices : GridAnalyze(price)
    \/ GridReset

SpecGrid == InitGrid /\ [][NextGrid]_vars

\* A momentum strategy used on its own
InitMomentum ==
    /\ RiskIdle
    /\ IoIdle
    /\ now = ClockStart
    /\ strategyManager = NewStrategyManager("auto")
    /\ strategies = NewStrategies(DefaultGridConfig)
    /\ arrivals = << >>
    /\ signalled = NoSignals

NextMomentum ==
    \/ Activate("momentum")
    \/ Deactivate("momentum")
    \/ \E price \in MomentumPrices, volume \in MomentumVolumes :
          MomentumAnalyze(price, volume)
    \/ StrategyUpdatePosition("momentum")
    \/ ClearPosition("momentum")
    \/ MomentumReset

SpecMomentum == InitMomentum /\ [][NextMomentum]_vars

\* A StorageManager used on its own
InitStorage ==
    /\ RiskIdle
    /\ StrategiesIdle
    /\ IoIdle
    /\ now = ClockStart

NextStorage ==
    \/ StartNewCycle
    \/ \E trade \in Trades : AddTrade(trade)
    \/ FinalizeCycle

SpecStorage == InitStorage /\ [][NextStorage]_vars

\* One caller of WalletManager.sendTransaction
InitWallet ==
    /\ RiskIdle
    /\ StrategiesIdle
    /\ IoIdle
    /\ now = ClockStart

NextWallet ==
    \/ \E retries \in Retries : SendTransaction(retries)
    \/ SubmissionResolves
    \/ SubmissionRejects
    \/ WalletTick
    \/ BackoffTimerFires

SpecWallet == InitWallet /\ [][NextWallet]_vars

\* The same, when every submission settles and the event loop runs its timers
SpecWalletFair ==
    /\ SpecWallet
    /\ WF_vars(SubmissionResolves \/ SubmissionRejects)
    /\ WF_vars(WalletTick)
    /\ WF_vars(BackoffTimerFires)

----------------------------------------------------------------------------
\* Properties of the drawdown circuit breaker

\* level i's loss threshold is reached: capital fell from the peak by at
\* least Levels[i + 1].percent
LossReached(i, peak, capital) ==
    (peak - capital) * PercentScale >= Levels[i + 1].percent * peak

\* the level indexes whose events a call emitted, in emission order
RECURSIVE FiredLevels(_)
FiredLevels(em) ==
    IF em = << >> THEN << >>
    ELSE LET rest == FiredLevels(Tail(em))
         IN IF \E i \in LevelIndexes : Head(em) = DrawdownEvent(i)
            THEN <<CHOOSE i \in LevelIndexes : Head(em) = DrawdownEvent(i)>> \o rest
            ELSE rest

Ascending(s) == \A j, k \in 1 .. Len(s) : j < k => s[j] < s[k]
IsPrefix(s, t) == Len(s) <= Len(t) /\ \A k \in 1 .. Len(s) : s[k] = t[k]
Occurrences(s, x) == Cardinality({k \in 1 .. Len(s) : s[k] = x})

\* C1: between two reset() calls each drawdown level fires at most once (its
\* index is pushed, its event emitted and its action run at most once), and
\* triggeredLevels only grows: a step that is not reset() keeps every index
\* already in it.
C1_LevelFiresAtMostOnce ==
    /\ [](\A i \in LevelIndexes :
            /\ fireCount[i] <= 1
            /\ Occurrences(triggeredLevels, i) <= 1
            /\ Occurrences(FiredLevels(emitted), i) <= 1)
    /\ [][lastOp' # "reset" => IsPrefix(triggeredLevels, triggeredLevels')]_vars

\* C1 witness: level 1 has fired once, and a later updateCapital call that
\* finds capital 16% under the peak again fires nothing.
C1_Witness ==
    /\ lastOp = "updateCapital"
    /\ fireCount[0] = 1
    /\ peakCapital = 110 /\ currentCapital = 84
    /\ emitted = << >>

\* C2: with the configured levels, updateCapital fires level i only when
\* capital has fallen from peakCapital by at least that level's threshold; a
\* call with newCapital at or above the peak fires no level.
C2_FiresOnlyAtThreshold ==
    lastOp = "updateCapital" =>
        \A i \in LevelIndexes :
            Includes(FiredLevels(emitted), i) => LossReached(i, peakCapital, currentCapital)

\* C3: peakCapital never decreases under updateCapital, peakCapital >=
\* currentCapital, and currentDrawdown = (currentCapital - peakCapital) /
\* peakCapital, which is <= 0.
C3_PeakAndDrawdown ==
    /\ [](/\ peakCapital >= currentCapital
          /\ peakCapital > 0
          /\ currentDrawdown.den > 0
          /\ currentDrawdown.num * peakCapital
                = (currentCapital - peakCapital) * currentDrawdown.den
          /\ currentDrawdown.num <= 0)
    /\ [][lastOp' = "updateCapital" => peakCapital' >= peakCapital]_vars

\* C3 witness: the peak was raised above the initial capital and capital then
\* fell below it.
C3_Witness ==
    /\ lastOp = "updateCapital"
    /\ peakCapital > initialCapital
    /\ currentCapital < peakCapital
    /\ currentDrawdown.num < 0

\* C4: one updateCapital call fires every untriggered level whose threshold
\* the drawdown has reached, in ascending level order, and when the stop
\* level is among them the call ends with the stop.
C4_AllCrossedLevelsFireInOrder ==
    [][lastOp' = "updateCapital" =>
         LET fired == FiredLevels(emitted')
         IN /\ \A i \in LevelIndexes :
                 (LossReached(i, peakCapital', currentCapital')
                    /\ ~Includes(triggeredLevels, i))
                 => Includes(fired, i)
            /\ Ascending(fired)
            /\ Includes(fired, 2) =>
                 /\ fired[Len(fired)] = 2
                 /\ emitted'[Len(emitted')] = "bot.stopped"]_vars

\* C4 witness: peak 100, capital drops to 84, levels 1, 2 and 3 fire in one call.
C4_Witness ==
    /\ lastOp = "updateCapital"
    /\ peakCapital = 100 /\ currentCapital = 84
    /\ FiredLevels(emitted) = <<0, 1, 2>>
    /\ ~botAttached

\* C5: a drawdown pause stays in effect for its whole duration: from
\* pauseTrading(d) until the clock reaches start + d, isTradingPaused()
\* returns true, whatever timer callbacks run in between.
C5_PauseLastsItsDuration ==
    \A deadline \in pauseDeadlines :
        now < deadline => isTradingPausedResult(World)

\* C6: isTradingPaused() clears an expired pause itself: paused with the clock
\* at or past pauseUntil, it returns false and leaves isPaused = false and
\* pauseUntil = null; not paused, it returns false and changes nothing.
C6_ExpiredPauseClearedOnQuery ==
    [][lastOp' = "isTradingPaused" =>
         /\ (isPaused /\ now >= pauseUntil) =>
               /\ lastResult' = BoolResult(FALSE)
               /\ isPaused' = FALSE
               /\ pauseUntil' = Null
         /\ ~isPaused =>
               /\ lastResult' = BoolResult(FALSE)
               /\ UNCHANGED <<ddVars, exitVars>>
               /\ emitted' = << >>]_vars

\* C6 witness: a query found the pause expired with its timer still pending,
\* cleared it and answered false.
C6_Witness ==
    /\ lastOp = "isTradingPaused"
    /\ lastResult = BoolResult(FALSE)
    /\ emitted = <<"bot.resumed">>
    /\ \E t \in BagToSet(timers) : t.owner = "drawdown" /\ t.due <= now

\* the level whose action is stop has fired in this run
StopFired == \E i \in LevelIndexes : Levels[i + 1].action = "stop" /\ Includes(triggeredLevels, i)

\* new entries are allowed: the bot is running and the DrawdownManager
\* reports not paused
EntriesAllowed == botAttached /\ isRunning /\ ~isTradingPausedResult(World)

----------------------------------------------------------------------------
\* Properties of the exit manager

\* the update call of this step made pair p's trailing stop trigger
StopTriggersInStep(p) ==
    /\ lastOp' = "update" /\ lastArgs'.pair = p
    /\ p \in DOMAIN activeExits
    /\ ~activeExits[p].stopLoss.isTriggered
    /\ activeExits'[p].stopLoss.isTriggered

\* C8: in ExitManager.update the stop-loss is evaluated first and
\* short-circuits: a call in which the trailing stop triggers returns
\* shouldExit with reason 'stop_loss', changes no take-profit level and emits
\* no take-profit event, even when the price reaches an untriggered target.
C8_StopLossShortCircuits ==
    [][\A p \in Pairs :
         StopTriggersInStep(p) =>
            /\ lastResult'.shouldExit
            /\ lastResult'.reason = "stop_loss"
            /\ lastResult'.exitPrice = lastArgs'.price
            /\ activeExits'[p].takeProfit = activeExits[p].takeProfit
            /\ ~Includes(emitted', "risk.take_profit_triggered")]_vars

\* C8 witness: an update returned stop_loss at a price above the target of a
\* take-profit level that is still untriggered.
C8_Witness ==
    /\ lastOp = "update"
    /\ lastResult.reason = "stop_loss"
    /\ lastArgs.pair \in DOMAIN activeExits
    /\ \E k \in 1 .. 3 :
          LET level == activeExits[lastArgs.pair].takeProfit.levels[k]
          IN ~level.isTriggered /\ lastArgs.price > level.targetPrice

\* C9: over the lifetime of a TrailingStopLoss, highestPrice and stopPrice
\* never decrease and isTriggered, once true, stays true.
C9_TrailingStopMonotone ==
    [][\A p \in Pairs :
         (/\ p \in DOMAIN activeExits
          /\ p \in DOMAIN activeExits'
          /\ ~(lastOp' = "startManaging" /\ lastArgs'.pair = p))
         => LET old == activeExits[p].stopLoss
                new == activeExits'[p].stopLoss
            IN /\ new.highestPrice >= old.highestPrice
               /\ new.stopPrice >= old.stopPrice
               /\ old.isTriggered => new.isTriggered]_vars

\* C9 witness: a triggered stop was updated again with a price above the stop
\* and below the high, and is still triggered.
C9_Witness ==
    /\ lastOp = "update"
    /\ lastArgs.pair \in DOMAIN activeExits
    /\ LET sl == activeExits[lastArgs.pair].stopLoss
       IN /\ sl.isTriggered
          /\ lastResult.reason # "stop_loss"
          /\ lastArgs.price > sl.stopPrice
          /\ lastArgs.price < sl.highestPrice

\* C10: stopPrice = highestPrice x (1 - trailingPercent), and highestPrice is
\* the maximum of entryPrice and every price passed to update.
C10_StopDerivedFromHigh ==
    \A p \in DOMAIN activeExits :
        LET sl == activeExits[p].stopLoss
        IN /\ sl.stopPrice * PercentScale
                = sl.highestPrice * (PercentScale - sl.trailingPercent)
           /\ sl.highestPrice = maxSeen[p]
           /\ sl.highestPrice >= sl.entryPrice

\* C10 witness: entry 100 and a price of 110 give a stop of 106.70.
C10_Witness ==
    \E p \in DOMAIN activeExits :
        LET sl == activeExits[p].stopLoss
        IN sl.entryPrice = 10000 /\ sl.highestPrice = 11000 /\ sl.stopPrice = 10670

----------------------------------------------------------------------------
\* Properties of the stop-loss return value and of the take-profit levels

\* the step is ExitManager.update(p, price) on a managed pair
UpdatesManaged(p) ==
    lastOp' = "update" /\ lastArgs'.pair = p /\ p \in DOMAIN activeExits

\* level k of pair p goes from untriggered to triggered in the step
NewlyTriggered(p, k) ==
    /\ ~activeExits[p].takeProfit.levels[k].isTriggered
    /\ activeExits'[p].takeProfit.levels[k].isTriggered

LevelsOf(p) == 1 .. Len(activeExits[p].takeProfit.levels)

\* the levels named by the take-profit events of the last operation
LevelsInEvents(data) ==
    {data[j].level : j \in {i \in 1 .. Len(data) : data[i].event = "risk.take_profit_triggered"}}

\* C11: TrailingStopLoss.update returns true in exactly the first call of the
\* object whose price is at or below stopPrice (taken after the high-water
\* mark update) and false in every other call, the calls after the trigger
\* included; the pnlPercent it reports is (price - entryPrice) / entryPrice x 100.
C11_StopLossTrueOnFirstHitOnly ==
    [][\A p \in Pairs :
         UpdatesManaged(p) =>
            LET price == lastArgs'.price
                atStop == price <= activeExits'[p].stopLoss.stopPrice
                returned == lastResult'.reason = "stop_loss"
            IN /\ returned <=> (atStop /\ ~stopReached[p])
               /\ returned =>
                     /\ Len(eventData') = 1
                     /\ eventData'[1].event = "risk.stop_loss_triggered"
                     \* pnl = (price - entry) / (entry / 100); entry is whole dollars
                     /\ eventData'[1].pnlPercent.num
                              * (activeExits[p].entryPrice \div PercentScale)
                           = (price - activeExits[p].entryPrice)
                                * eventData'[1].pnlPercent.den
               /\ ~returned =>
                     \A j \in 1 .. Len(eventData') :
                        eventData'[j].event # "risk.stop_loss_triggered"]_vars

\* entry 100, peak 110, price 106: the stop triggers with +6%
C11_Witness ==
    /\ lastOp = "update"
    /\ lastArgs.pair \in DOMAIN activeExits
    /\ lastResult.reason = "stop_loss"
    /\ lastArgs.price = 10600
    /\ activeExits[lastArgs.pair].stopLoss.entryPrice = 10000
    /\ activeExits[lastArgs.pair].stopLoss.highestPrice = 11000
    /\ Len(eventData) = 1
    /\ eventData[1].pnlPercent.num = 6 * eventData[1].pnlPercent.den

\* C12: a take-profit level becomes triggered only in an update whose price is
\* at or above its targetPrice = entryPrice x (1 + percent); it is returned as
\* newly triggered exactly in the call that triggers it, so at most once, and
\* it never un-triggers; allExecuted is true exactly when every level's
\* isTriggered is true.
C12_LevelTriggersOnceAtTarget ==
    [][\A p \in Pairs :
         /\ ( /\ p \in DOMAIN activeExits /\ p \in DOMAIN activeExits'
              /\ ~(lastOp' = "startManaging" /\ lastArgs'.pair = p) ) =>
               \A k \in LevelsOf(p) :
                  LET old == activeExits[p].takeProfit.levels[k]
                      new == activeExits'[p].takeProfit.levels[k]
                  IN /\ old.isTriggered => new.isTriggered
                     /\ new.targetPrice = old.targetPrice
                     /\ new.targetPrice * PercentScale
                           = activeExits[p].entryPrice * (PercentScale + new.percent)
                     /\ NewlyTriggered(p, k) =>
                           /\ lastOp' = "update" /\ lastArgs'.pair = p
                           /\ lastArgs'.price >= new.targetPrice
                     /\ UpdatesManaged(p) =>
                           (k \in LevelsInEvents(eventData') <=> NewlyTriggered(p, k))
         /\ (lastOp' = "getExitState" /\ lastArgs'.pair = p /\ p \in DOMAIN activeExits) =>
               /\ lastResult'.takeProfit.allExecuted
                     <=> \A k \in LevelsOf(p) : activeExits[p].takeProfit.levels[k].isTriggered
               /\ lastResult'.takeProfit.executedCount
                     = Cardinality({k \in LevelsOf(p) :
                                       activeExits[p].takeProfit.levels[k].isTriggered})]_vars

\* a level is triggered by an update at exactly its target price
C12_Witness ==
    /\ lastOp = "update"
    /\ lastArgs.pair \in DOMAIN activeExits
    /\ LET tp == activeExits[lastArgs.pair].takeProfit
       IN /\ tp.levels[1].isTriggered /\ ~tp.levels[2].isTriggered
          /\ lastArgs.price = tp.levels[1].targetPrice
          /\ LevelsInEvents(eventData) = {1}

\* getExitState reports allExecuted on an object whose levels are all triggered
C12_WitnessAllExecuted ==
    /\ lastOp = "getExitState"
    /\ lastResult.kind = "exitState"
    /\ lastResult.takeProfit.allExecuted
    /\ lastResult.takeProfit.executedCount = 3

C14_TakeProfitResult ==
    [][\A p \in Pairs :
         (UpdatesManaged(p) /\ lastResult'.reason # "stop_loss") =>
            LET newly == {k \in LevelsOf(p) : NewlyTriggered(p, k)}
                all == \A k \in LevelsOf(p) : activeExits'[p].takeProfit.levels[k].isTriggered
                r == lastResult'
            IN /\ (r.shouldExit /\ r.reason = "all_take_profit_levels")
                     <=> (newly # {} /\ all)
               /\ r.shouldExit => r.reason = "all_take_profit_levels"
               /\ (newly # {} /\ ~all) =>
                     /\ ~r.shouldExit
                     /\ Len(r.partialExit) = Cardinality(newly)
                     /\ {r.partialExit[j].levelIndex : j \in 1 .. Len(r.partialExit)} = newly
                     /\ \A j \in 1 .. Len(r.partialExit) :
                           /\ r.partialExit[j].amountPercent
                                 = TakeProfitAmounts[r.partialExit[j].levelIndex]
                           /\ r.partialExit[j].currentPrice = lastArgs'.price
               /\ newly = {} => r = NoExitResult]_vars

\* a partial exit that lists two levels triggered by one call
C14_Witness ==
    /\ lastOp = "update"
    /\ lastArgs.pair \in DOMAIN activeExits
    /\ lastResult.kind = "exit" /\ lastResult.reason = "undefined"
    /\ Len(lastResult.partialExit) = 2
    /\ ~allLevelsExecuted(activeExits[lastArgs.pair].takeProfit)

\* a call after every level is executed triggers none and returns no exit
C14_WitnessNone ==
    /\ lastOp = "update"
    /\ lastArgs.pair \in DOMAIN activeExits
    /\ allLevelsExecuted(activeExits[lastArgs.pair].takeProfit)
    /\ lastResult = NoExitResult

\* C15: stopManaging(pair) changes nothing when the pair is not managed, leaves
\* the pair unmanaged, so that a second call equals one call, and never
\* touches the entry of another pair.
C15_StopManagingIdempotent ==
    [][\A p \in Pairs :
         (lastOp' = "stopManaging" /\ lastArgs'.pair = p) =>
            /\ p \notin DOMAIN activeExits'
            /\ p \notin DOMAIN activeExits => activeExits' = activeExits
            /\ \A q \in Pairs \ {p} :
                  /\ q \in DOMAIN activeExits' <=> q \in DOMAIN activeExits
                  /\ q \in DOMAIN activeExits => activeExits'[q] = activeExits[q]]_vars

\* stopManaging was called for a pair that was not managed while the other was
C15_Witness ==
    /\ lastOp = "stopManaging"
    /\ ~lastArgs.had
    /\ \E q \in Pairs \ {lastArgs.pair} : q \in DOMAIN activeExits

----------------------------------------------------------------------------
\* Properties of the position manager

\* the sum of the amounts passed to the openPosition calls whose position is
\* still open
RECURSIVE SumOf(_)
SumOf(f) ==
    IF DOMAIN f = {} THEN Whole(0)
    ELSE LET k == CHOOSE x \in DOMAIN f : TRUE
         IN RatAdd(f[k], SumOf(Drop(f, k)))

PosWorldAfter == [currentCapital |-> positionCapital', openPositions |-> openPositions']

\* C16: openPosition for a pair that already has an open position returns
\* false and changes neither currentCapital, nor the available capital, nor
\* the open positions and what they store; a call succeeds only for a pair
\* that has no open position, and each stored position belongs to its pair.
C16_OpenExistingIsNoOp ==
    [][\A p \in Pairs :
         (lastOp' = "openPosition" /\ lastArgs'.pair = p) =>
            /\ p \in DOMAIN openPositions =>
                  /\ lastResult' = BoolResult(FALSE)
                  /\ positionCapital' = positionCapital
                  /\ openPositions' = openPositions
                  /\ getAvailableCapital(PosWorldAfter) = getAvailableCapital(PosWorld)
            /\ lastResult'.value =>
                  /\ p \notin DOMAIN openPositions
                  /\ DOMAIN openPositions' = DOMAIN openPositions \cup {p}
            /\ \A q \in DOMAIN openPositions' : openPositions'[q].pair = q]_vars

\* a second openPosition with another amount was refused and the stored
\* position kept its amount
C16_Witness ==
    /\ lastOp = "openPosition"
    /\ lastResult = BoolResult(FALSE)
    /\ lastArgs.pair \in DOMAIN openPositions
    /\ openPositions[lastArgs.pair].investedAmount # lastArgs.amountUSD
    /\ investedBy[lastArgs.pair] = openPositions[lastArgs.pair].investedAmount

\* C17: in every state, getAvailableCapital() is currentCapital minus the sum
\* of the amounts invested in the positions now open.
C17_AvailableIsCapitalMinusInvested ==
    /\ getAvailableCapital(PosWorld) = RatSub(positionCapital, SumOf(investedBy))
    /\ lastOp = "getAvailableCapital" =>
          lastResult.value = RatSub(positionCapital, SumOf(investedBy))

\* capital 50 with one open position of 30 invested reads 20, not 50
C17_Witness ==
    /\ lastOp = "getAvailableCapital"
    /\ positionCapital = Whole(50)
    /\ Cardinality(DOMAIN openPositions) = 1
    /\ \A q \in DOMAIN openPositions : openPositions[q].investedAmount = Whole(30)
    /\ lastResult.value = Whole(20)

\* C18: while every openPosition came right after a canOpenPosition() that
\* returned true and used the amounts calculatePositionSize returned, and
\* every closePosition used an exit price >= 0, the available capital is
\* not negative.
C18_AvailableNeverNegative ==
    disciplined => getAvailableCapital(PosWorld).num >= 0

\* two gated and sized opens, then one of them closed at a total loss
C18_Witness ==
    /\ disciplined
    /\ opens = 2
    /\ lastOp = "closePosition"
    /\ lastResult.kind = "trade"
    /\ lastResult.realizedPnL.num < 0
    /\ Cardinality(DOMAIN openPositions) = 1

\* an available capital below zero, reached by opens that were not sized
AvailableNegative == getAvailableCapital(PosWorld).num < 0

\* the step is closePosition(p, price) on a pair with an open position
ClosesOpen(p) ==
    lastOp' = "closePosition" /\ lastArgs'.pair = p /\ p \in DOMAIN openPositions

\* C19: closePosition on an open pair removes that position only, adds
\* realizedPnL = tokenAmount x exitPrice - investedAmount to currentCapital
\* and returns a trade record with that PnL; on a pair that is not open it
\* returns null and changes neither the capital nor the open positions; an
\* openPosition for a pair that is not open, closed before or not, succeeds.
C19_ClosePosition ==
    [][\A p \in Pairs :
         /\ ClosesOpen(p) =>
               /\ DOMAIN openPositions' = DOMAIN openPositions \ {p}
               /\ \A q \in DOMAIN openPositions' : openPositions'[q] = openPositions[q]
               /\ lastResult'.kind = "trade"
               /\ lastResult'.realizedPnL
                     = RatSub(RatMul(openPositions[p].tokenAmount, Whole(lastArgs'.price)),
                              openPositions[p].investedAmount)
               /\ positionCapital' = RatAdd(positionCapital, lastResult'.realizedPnL)
         /\ ( /\ lastOp' = "closePosition" /\ lastArgs'.pair = p
              /\ p \notin DOMAIN openPositions ) =>
               /\ lastResult' = NullResult
               /\ positionCapital' = positionCapital
               /\ openPositions' = openPositions
         /\ ( /\ lastOp' = "openPosition" /\ lastArgs'.pair = p
              /\ p \notin DOMAIN openPositions ) =>
               lastResult' = BoolResult(TRUE) /\ p \in DOMAIN openPositions']_vars

\* a position closed at a profit: the capital is above the initial capital
C19_Witness ==
    /\ lastOp = "closePosition"
    /\ lastResult.kind = "trade"
    /\ lastResult.realizedPnL.num > 0
    /\ lastArgs.pair \notin DOMAIN openPositions
    /\ RatLess(Whole(initialCapital), positionCapital)

\* max(0.5, 1 - volatility/0.5), by cases: 1 - 2 x volatility below a
\* volatility of 0.25, and 0.5 from there on
FactorByCases(volatility) ==
    IF volatility = NoVolatility THEN Whole(1)
    ELSE IF RatLess(volatility, Rat(1, 4))
    THEN RatSub(Whole(1), RatMul(Whole(2), volatility))
    ELSE Half

\* C20: calculatePositionSize returns amountUSD = availableCapital x
\* maxPositionPercent x f, with f = 1 without a volatility and
\* f = max(0.5, 1 - volatility/0.5) with one; for an available capital >= 0
\* the size is not negative, not above availableCapital x maxPositionPercent
\* and not below half of it; and amountToken = amountUSD / price.
C20_PositionSize ==
    [][(lastOp' = "calculatePositionSize"
          /\ RatSub(positionCapital, SumOf(investedBy)).num >= 0) =>
         LET available == RatSub(positionCapital, SumOf(investedBy))
             base == RatMul(available, Rat(maxPositionPercent, PercentScale))
             r == lastResult'
         IN /\ r.amountUSD = RatMul(base, FactorByCases(lastArgs'.volatility))
            /\ r.amountUSD.num >= 0
            /\ ~RatLess(base, r.amountUSD)
            /\ ~RatLess(r.amountUSD, RatMul(base, Half))
            /\ RatMul(r.amountToken, Whole(lastArgs'.price)) = r.amountUSD]_vars

\* a volatility above 0.5 on a positive available capital: the size is half
\* the base amount
C20_Witness ==
    /\ lastOp = "calculatePositionSize"
    /\ lastArgs.volatility = Whole(1)
    /\ Cardinality(DOMAIN openPositions) = 1
    /\ lastResult.amountUSD.num > 0
    /\ lastResult.amountUSD
          = RatMul(RatMul(getAvailableCapital(PosWorld),
                          Rat(maxPositionPercent, PercentScale)), Half)

----------------------------------------------------------------------------
\* Properties of the strategy manager

\* the isActive flags of the two strategies
ActiveFlags(st) == [k \in StrategyKeys |-> st[k].isActive]

\* a selectStrategy call finds the cooldown of the last switch still running
InCooldown ==
    /\ strategyManager.lastSwitch # Null
    /\ now - strategyManager.lastSwitch < SwitchCooldown

\* C21: at most one strategy has isActive = true, and a strategy is active
\* exactly when it is the manager's currentStrategy, after any sequence of
\* initialize, selectStrategy, forceSwitch, autoSelectStrategy, analyze and
\* reset calls.
C21_MutualExclusion ==
    /\ Cardinality({k \in StrategyKeys : strategies[k].isActive}) <= 1
    /\ \A k \in StrategyKeys :
          strategies[k].isActive <=> strategyManager.currentStrategy = k

\* C21 witness: the manager switched from the grid, which had been active and
\* analysing (it has a base price), to momentum
C21_Witness ==
    /\ strategyManager.currentStrategy = "momentum"
    /\ strategies.momentum.isActive
    /\ ~strategies.grid.isActive
    /\ strategies.grid.basePrice # Null

\* C22: a selectStrategy call made less than switchCooldown after the last
\* successful switch returns false and changes nothing (currentStrategy, the
\* isActive flags, lastSwitch; no event); forceSwitch with the name of a
\* registered strategy succeeds whatever the cooldown.  (The forceSwitch half
\* is stated for a manager whose currentStrategy is null or a strategy.)
C22_SwitchesRateLimited ==
    [][/\ (lastOp' = "selectStrategy" /\ InCooldown) =>
             /\ lastResult' = BoolResult(FALSE)
             /\ strategyManager' = strategyManager
             /\ ActiveFlags(strategies') = ActiveFlags(strategies)
             /\ emitted' = << >>
       /\ (lastOp' = "forceSwitch"
             /\ lastArgs'.strategyName \in StrategyKeys
             /\ strategyManager.currentStrategy \in StrategyKeys \cup {"null"}) =>
             /\ lastResult' = BoolResult(TRUE)
             /\ strategyManager'.currentStrategy = lastArgs'.strategyName
             /\ strategies'[lastArgs'.strategyName].isActive
             /\ strategyManager'.lastSwitch = now]_vars

\* C22 witness: a selectStrategy of the other, registered strategy was refused
\* for the cooldown alone, half a cooldown after the last switch
C22_Witness ==
    /\ lastOp = "selectStrategy"
    /\ lastResult = BoolResult(FALSE)
    /\ lastArgs.strategyName = "momentum"
    /\ strategyManager.currentStrategy = "grid"
    /\ InCooldown
    /\ now - strategyManager.lastSwitch = StepMs

\* C23: forceSwitch with a name that is not registered returns false, leaves
\* lastSwitch at its value before the call and leaves currentStrategy and the
\* isActive flags unchanged.
C23_FailedForceSwitchSideEffectFree ==
    [][(lastOp' = "forceSwitch" /\ lastArgs'.strategyName \notin StrategyKeys) =>
          /\ lastResult' = BoolResult(FALSE)
          /\ strategyManager'.lastSwitch = strategyManager.lastSwitch
          /\ strategyManager'.currentStrategy = strategyManager.currentStrategy
          /\ ActiveFlags(strategies') = ActiveFlags(strategies)]_vars

\* What does hold of a failed forceSwitch: a name that a lookup in
\* this.strategies does not find at all, own or inherited, is refused without
\* any change
C23_UnknownNameRefused ==
    [][(lastOp' = "forceSwitch"
          /\ lastArgs'.strategyName \notin StrategyKeys \cup InheritedKeys) =>
          /\ lastResult' = BoolResult(FALSE)
          /\ strategyManager' = strategyManager
          /\ strategies' = strategies]_vars

\* a forceSwitch that threw in the middle of a running cooldown: the cooldown
\* is gone and the strategy that was active is not any more
C23_Corrupted ==
    /\ lastOp = "forceSwitch"
    /\ lastResult = ThrowResult
    /\ lastArgs.strategyName = "constructor"
    /\ strategyManager.lastSwitch = Null
    /\ strategyManager.currentStrategy = "constructor"
    /\ strategies.grid.basePrice # Null
    /\ ~strategies.grid.isActive
    /\ ~strategies.momentum.isActive

\* the choice as documented: momentum for a volatility above 0.15, a volume
\* above 1.5 times a given average volume and a clear uptrend or downtrend
DocumentedChoice(marketData) ==
    IF /\ marketData.volatility # NoVolatility
       /\ marketData.volatility.num * PercentScale > AutoVolatility * marketData.volatility.den
       /\ marketData.avgVolume # Undefined
       /\ marketData.avgVolume > 0
       /\ marketData.volume # Undefined
       /\ marketData.volume * 10 > AutoVolumeRatio * marketData.avgVolume
       /\ detectTrend(marketData.priceHistory) \in {"uptrend", "downtrend"}
    THEN "momentum" ELSE "grid"

\* a first automatic selection: no strategy yet, so no cooldown either
FirstSelection ==
    /\ strategyManager.currentStrategy = "null"
    /\ strategyManager.lastSwitch = Null

\* C24: autoSelectStrategy chooses momentum exactly when volatility > 0.15,
\* volume / avgVolume > 1.5 and the trend of the recent 10 against the prior
\* 10 average prices is a clear uptrend or downtrend; in every other case
\* (sideways, no avgVolume, too little price history for a trend) it chooses
\* grid.
C24_AutoSelectChoice ==
    [][(lastOp' = "autoSelectStrategy" /\ FirstSelection) =>
          strategyManager'.currentStrategy
             = DocumentedChoice(lastArgs'.marketData)]_vars

\* What does hold of the choice: with a trend that can be computed it is the
\* documented one
C24_ChoiceWithTrend ==
    [][(lastOp' = "autoSelectStrategy" /\ FirstSelection
          /\ detectTrend(lastArgs'.marketData.priceHistory) # "insufficient_data") =>
          strategyManager'.currentStrategy
             = DocumentedChoice(lastArgs'.marketData)]_vars

\* momentum selected on a snapshot without price history
C24_MomentumWithoutHistory ==
    /\ lastOp = "autoSelectStrategy"
    /\ lastArgs.marketData.priceHistory = << >>
    /\ strategyManager.currentStrategy = "momentum"
    /\ strategies.momentum.isActive
    /\ strategyManager.lastSwitch = now

\* a required field of a snapshot is absent
AnyMissing(marketData) ==
    \/ marketData.price = Undefined
    \/ marketData.volume = Undefined
    \/ marketData.liquidity = Undefined
    \/ marketData.timestamp = Undefined

\* the documented ranges of a snapshot's required numbers
InRanges(marketData) ==
    /\ marketData.price > 0
    /\ marketData.volume >= 0
    /\ marketData.liquidity >= 0

\* what canTrade of the strategy under key asks beyond a valid snapshot
Suits(key, marketData) ==
    IF key = "grid"
    THEN /\ \/ marketData.volatility = NoVolatility
            \/ marketData.volatility.num * PercentScale
                  <= GridMaxVolatility * marketData.volatility.den
         /\ marketData.liquidity >= MinLiquidity
    ELSE /\ \/ marketData.volatility = NoVolatility
            \/ marketData.volatility.num = 0
            \/ marketData.volatility.num * PercentScale
                  >= MomentumMinVolatility * marketData.volatility.den
         /\ marketData.volume >= MinVolume24h

\* a strategy's fields other than isActive (which a switch writes)
OwnState(st) == [k \in StrategyKeys |-> [st[k] EXCEPT !.isActive = FALSE]]

\* C30: a snapshot is rejected exactly when one of price, volume, liquidity,
\* timestamp is absent: StrategyManager.analyze then returns null without
\* calling the strategy's analyze or changing the strategy's state; a snapshot
\* with all four present and within the documented ranges (price > 0,
\* volume >= 0, liquidity >= 0) passes validation, so a strategy that the
\* market otherwise suits analyses it.
C30_RejectedIffFieldMissing ==
    [][(lastOp' = "analyze" /\ strategyManager'.currentStrategy \in StrategyKeys
          /\ lastResult' # ThrowResult) =>
          /\ AnyMissing(lastArgs'.marketData) =>
                /\ lastResult' = NullResult
                /\ lastArgs'.ran = "none"
                /\ OwnState(strategies') = OwnState(strategies)
          /\ (/\ ~AnyMissing(lastArgs'.marketData)
              /\ InRanges(lastArgs'.marketData)
              /\ Suits(strategyManager'.currentStrategy, lastArgs'.marketData)) =>
                lastArgs'.ran = strategyManager'.currentStrategy]_vars

\* What does hold: a snapshot is rejected exactly when a required field is
\* absent or 0, and a rejected snapshot reaches no strategy
C30_RejectedIffFieldFalsy ==
    [][(lastOp' = "analyze" /\ strategyManager'.currentStrategy \in StrategyKeys
          /\ lastResult' # ThrowResult) =>
          /\ ~validateMarketData(lastArgs'.marketData)
                <=> \/ AnyMissing(lastArgs'.marketData)
                    \/ lastArgs'.marketData.price = 0
                    \/ lastArgs'.marketData.volume = 0
                    \/ lastArgs'.marketData.liquidity = 0
                    \/ lastArgs'.marketData.timestamp = 0
          /\ ~validateMarketData(lastArgs'.marketData) =>
                /\ lastResult' = NullResult
                /\ lastArgs'.ran = "none"
                /\ OwnState(strategies') = OwnState(strategies)
          /\ (/\ validateMarketData(lastArgs'.marketData)
              /\ Suits(strategyManager'.currentStrategy, lastArgs'.marketData)) =>
                lastArgs'.ran = strategyManager'.currentStrategy]_vars

\* the grid, current and suited by the market, did not get a snapshot with
\* every required field present and a volume of 0
C30_ZeroVolumeRejected ==
    /\ lastOp = "analyze"
    /\ strategyManager.currentStrategy = "grid"
    /\ ~AnyMissing(lastArgs.marketData)
    /\ InRanges(lastArgs.marketData)
    /\ lastArgs.marketData.volume = 0
    /\ Suits("grid", lastArgs.marketData)
    /\ lastArgs.ran = "none"
    /\ lastResult = NullResult

----------------------------------------------------------------------------
\* Properties of the grid strategy

\* the price is within 0.5% of the level's price
NearLevel(price, level) ==
    LET gap == RatAbs(RatSub(Whole(price), level.price))
    IN gap.num * level.price.den * 10 * PercentScale
          < GridSignalDistance * level.price.num * gap.den

\* the gridLevels array of the step is the one of the state before it
SameGrid ==
    /\ strategies'.grid.basePrice = strategies.grid.basePrice
    /\ strategies'.grid.lastRebalance = strategies.grid.lastRebalance

\* C25: analyze returns a signal only when the strategy is active and the
\* price is within 0.5% of a grid level that has not triggered yet; the signal
\* marks that level triggered; so between two rebalances no level gives more
\* than one signal, whatever the prices.
C25_GridSignalOncePerLevel ==
    [][/\ \A i \in DOMAIN signalled' : signalled'[i] <= 1
       /\ (lastOp' = "gridAnalyze" /\ lastResult'.kind = "signal") =>
             /\ strategies.grid.isActive
             /\ NearLevel(lastArgs'.price,
                          strategies'.grid.gridLevels[lastResult'.levelIndex + 1])
             /\ strategies'.grid.gridLevels[lastResult'.levelIndex + 1].isTriggered
             /\ SameGrid =>
                  ~strategies.grid.gridLevels[lastResult'.levelIndex + 1].isTriggered
             /\ \A k \in DOMAIN strategies'.grid.gridLevels :
                   (SameGrid /\ k # lastResult'.levelIndex + 1) =>
                      strategies'.grid.gridLevels[k] = strategies.grid.gridLevels[k]]_vars

\* C25 witness: the price is again within 0.5% of a level that gave its signal,
\* and analyze on the active grid returned null
C25_Witness ==
    /\ lastOp = "gridAnalyze"
    /\ lastResult = NullResult
    /\ strategies.grid.isActive
    /\ \E k \in DOMAIN strategies.grid.gridLevels :
          /\ strategies.grid.gridLevels[k].isTriggered
          /\ signalled[k - 1] = 1
          /\ k = findClosestLevel(strategies.grid.gridLevels, lastArgs.price)
          /\ NearLevel(lastArgs.price, strategies.grid.gridLevels[k])

\* the interval has elapsed since lastRebalance, at the clock of the state
IntervalElapsed ==
    now - strategies.grid.lastRebalance >= GridRebalanceInterval * MsPerSecond

\* the price has moved more than 5% from basePrice
MovedMoreThan5Percent(price) ==
    Abs(price - strategies.grid.basePrice) * PercentScale
       > GridRebalancePercent * strategies.grid.basePrice

\* levels a and b but for the trigger of the level a signal of the step marked
SameButSignal(a, b, result) ==
    /\ Len(a) = Len(b)
    /\ \A k \in DOMAIN a :
          IF result.kind = "signal" /\ result.levelIndex = k - 1
          THEN a[k] = [b[k] EXCEPT !.isTriggered = TRUE]
          ELSE a[k] = b[k]

\* C26: the grid is rebalanced only when, at an analyze call, the rebalance
\* interval has elapsed since lastRebalance and the price has moved more than
\* 5% from basePrice.  Then basePrice becomes the price, the levels are
\* computed again around it with no trigger set, and lastRebalance is the
\* clock; when either condition fails, basePrice, the levels, their triggers
\* and lastRebalance are unchanged (but for the level the call itself signals).
C26_RebalanceWhenBoth ==
    [][(lastOp' = "gridAnalyze" /\ strategies.grid.isActive
          /\ strategies.grid.basePrice # Null) =>
          IF IntervalElapsed /\ MovedMoreThan5Percent(lastArgs'.price)
          THEN /\ strategies'.grid.basePrice = lastArgs'.price
               /\ strategies'.grid.lastRebalance = now
               /\ SameButSignal(strategies'.grid.gridLevels,
                                calculateGridLevels(strategies.grid.config,
                                                    lastArgs'.price),
                                lastResult')
          ELSE /\ strategies'.grid.basePrice = strategies.grid.basePrice
               /\ strategies'.grid.lastRebalance = strategies.grid.lastRebalance
               /\ SameButSignal(strategies'.grid.gridLevels,
                                strategies.grid.gridLevels, lastResult')]_vars

\* the price has moved 5% or more from basePrice
MovedAtLeast5Percent(price) ==
    Abs(price - strategies.grid.basePrice) * PercentScale
       >= GridRebalancePercent * strategies.grid.basePrice

\* What does hold: the same with a move of 5% or more
C26_RebalanceWhenBothAtLeast ==
    [][(lastOp' = "gridAnalyze" /\ strategies.grid.isActive
          /\ strategies.grid.basePrice # Null) =>
          IF IntervalElapsed /\ MovedAtLeast5Percent(lastArgs'.price)
          THEN /\ strategies'.grid.basePrice = lastArgs'.price
               /\ strategies'.grid.lastRebalance = now
               /\ SameButSignal(strategies'.grid.gridLevels,
                                calculateGridLevels(strategies.grid.config,
                                                    lastArgs'.price),
                                lastResult')
          ELSE /\ strategies'.grid.basePrice = strategies.grid.basePrice
               /\ strategies'.grid.lastRebalance = strategies.grid.lastRebalance
               /\ SameButSignal(strategies'.grid.gridLevels,
                                strategies.grid.gridLevels, lastResult')]_vars

\* a grid rebalanced from base 100 to base 105, a move of exactly 5%
C26_RebalancedAtExactly5Percent ==
    /\ lastOp = "gridAnalyze"
    /\ lastArgs.price = 105
    /\ strategies.grid.basePrice = 105
    /\ strategies.grid.lastRebalance = now
    /\ now = ClockStart + 2 * StepMs

\* C27: with the default grid configuration, a grid initialised at base price
\* B has its levels evenly spaced around B: buy levels below B, sell levels
\* above B, the grid spanning B (for B = 100: 95, 97.5, 100, 102.5, 105 tagged
\* buy, buy, neutral, sell, sell), each level tagged by the sign of its offset
\* from the base.
C27_LevelsAroundBase ==
    (strategies.grid.config = DefaultGridConfig /\ strategies.grid.basePrice # Null) =>
        LET levels == strategies.grid.gridLevels
            base == Whole(strategies.grid.basePrice)
        IN /\ Len(levels) = GridLevels
           /\ RatLess(levels[1].price, base)
           /\ RatLess(base, levels[Len(levels)].price)
           /\ \A k \in 1 .. (Len(levels) - 1) :
                 RatSub(levels[k + 1].price, levels[k].price)
                    = RatSub(levels[2].price, levels[1].price)
           /\ \A k \in DOMAIN levels :
                 /\ levels[k].action = "buy" <=> RatLess(levels[k].price, base)
                 /\ levels[k].action = "sell" <=> RatLess(base, levels[k].price)
                 /\ levels[k].action = "neutral" <=> levels[k].price = base
           /\ strategies.grid.basePrice = 100 =>
                 /\ [k \in DOMAIN levels |-> levels[k].price]
                       = <<Whole(95), Rat(195, 2), Whole(100), Rat(205, 2), Whole(105)>>
                 /\ [k \in DOMAIN levels |-> levels[k].action]
                       = <<"buy", "buy", "neutral", "sell", "sell">>

\* What does hold of the default grid: evenly spaced levels from 1.95 B to
\* 2.10 B, every one above the base and tagged sell
C27_DefaultLevelsAboveBase ==
    (strategies.grid.config = DefaultGridConfig /\ strategies.grid.basePrice # Null) =>
        LET levels == strategies.grid.gridLevels
            base == Whole(strategies.grid.basePrice)
        IN /\ Len(levels) = GridLevels
           /\ levels[1].price = RatMul(base, Rat(195, PercentScale))
           /\ levels[Len(levels)].price = RatMul(base, Rat(210, PercentScale))
           /\ \A k \in 1 .. (Len(levels) - 1) :
                 RatSub(levels[k + 1].price, levels[k].price)
                    = RatSub(levels[2].price, levels[1].price)
           /\ \A k \in DOMAIN levels : levels[k].action = "sell"

\* the default grid of base 100: 195, 198.75, 202.5, 206.25, 210, all sell
C27_DefaultGridOf100 ==
    /\ strategies.grid.config = DefaultGridConfig
    /\ strategies.grid.basePrice = 100
    /\ [k \in DOMAIN strategies.grid.gridLevels |-> strategies.grid.gridLevels[k].price]
          = <<Whole(195), Rat(795, 4), Rat(405, 2), Rat(825, 4), Whole(210)>>
    /\ \A k \in DOMAIN strategies.grid.gridLevels :
          strategies.grid.gridLevels[k].action = "sell"

----------------------------------------------------------------------------
\* Properties of the momentum strategy

\* the snapshots a of the strategy's window, by what the claim names: the price
\* change over the last n snapshots is above pct percent
WindowChangeAbove(a, n, pct) ==
    (a[Len(a)].price - a[Len(a) - n + 1].price) * PercentScale
       > pct * a[Len(a) - n + 1].price

\* the last snapshot's volume is above mult times the average volume of the
\* snapshots kept (the last cap of them)
VolumeAbove(a, cap, mult) ==
    a[Len(a)].volume * Len(LastN(a, cap))
       > mult * SeqSum([i \in DOMAIN LastN(a, cap) |-> LastN(a, cap)[i].volume])

\* the sums of the rises and of the falls over the last n price changes
Rises(a, n) ==
    SeqSum([j \in 1 .. n |->
              Max(a[Len(a) - n + j].price - a[Len(a) - n + j - 1].price, 0)])
Falls(a, n) ==
    SeqSum([j \in 1 .. n |->
              Max(a[Len(a) - n + j - 1].price - a[Len(a) - n + j].price, 0)])

\* RSI = 100 x rises / (rises + falls), and 100 without a fall
RsiBelow(a, x) ==
    IF Falls(a, RsiPeriod) = 0 THEN PercentScale < x
    ELSE PercentScale * Rises(a, RsiPeriod)
            < x * (Rises(a, RsiPeriod) + Falls(a, RsiPeriod))
RsiAbove(a, x) ==
    IF Falls(a, RsiPeriod) = 0 THEN PercentScale > x
    ELSE PercentScale * Rises(a, RsiPeriod)
            > x * (Rises(a, RsiPeriod) + Falls(a, RsiPeriod))

\* the price has dropped more than pct percent from the peak
DropAbove(peak, price, pct) == (peak - price) * PercentScale > pct * peak

\* C28: analyze returns null until lookbackPeriod prices are collected;
\* afterwards a buy signal only when there is no open position, the price
\* change over the window is above entryThreshold, the volume is above
\* volumeMultiplier x the average volume and RSI < rsiEntry + 40; and a sell
\* signal only when there is an open position and the drop from the peak since
\* the entry is above exitThreshold or RSI > rsiExit.
C28_MomentumSignals ==
    [][lastOp' = "momentumAnalyze" =>
          /\ Len(arrivals') < LookbackPeriod => lastResult' = NullResult
          /\ (lastResult'.kind = "signal" /\ lastResult'.action = "buy") =>
                /\ strategies.momentum.isActive
                /\ strategies.momentum.currentPosition = "null"
                /\ WindowChangeAbove(arrivals', LookbackPeriod, MomentumEntryThreshold)
                /\ VolumeAbove(arrivals', LookbackPeriod + HistoryMargin,
                               MomentumVolumeMultiplier)
                /\ RsiBelow(arrivals', RsiEntry + RsiEntryMargin)
          /\ (lastResult'.kind = "signal" /\ lastResult'.action = "sell") =>
                /\ strategies.momentum.isActive
                /\ strategies.momentum.currentPosition # "null"
                /\ \/ DropAbove(Max(strategies.momentum.highestPrice, lastArgs'.price),
                                lastArgs'.price, MomentumExitThreshold)
                   \/ RsiAbove(arrivals', RsiExit)]_vars

\* C28 witness: a sell signal with a profit and loss against an entry price,
\* which only a buy signal sets
C28_Witness ==
    /\ lastOp = "momentumAnalyze"
    /\ lastResult.kind = "signal"
    /\ lastResult.action = "sell"
    /\ lastResult.pnl.den # 0
    /\ strategies.momentum.totalSignals >= 2

\* C29: priceHistory and volumeHistory have the same length, never above
\* lookbackPeriod + 10, and hold the most recent snapshots in arrival order,
\* the oldest evicted first.
C29_BoundedFifo ==
    /\ Len(strategies.momentum.priceHistory) = Len(strategies.momentum.volumeHistory)
    /\ Len(strategies.momentum.priceHistory) <= LookbackPeriod + HistoryMargin
    /\ strategies.momentum.priceHistory
          = [i \in DOMAIN LastN(arrivals, LookbackPeriod + HistoryMargin) |->
                LastN(arrivals, LookbackPeriod + HistoryMargin)[i].price]
    /\ strategies.momentum.volumeHistory
          = [i \in DOMAIN LastN(arrivals, LookbackPeriod + HistoryMargin) |->
                LastN(arrivals, LookbackPeriod + HistoryMargin)[i].volume]

\* C29 witness: more snapshots arrived than the windows hold; the windows are
\* full, begin with a quiet snapshot and end with the last arrival, which is
\* not a quiet one
C29_Witness ==
    /\ Len(arrivals) > LookbackPeriod + HistoryMargin
    /\ Len(strategies.momentum.priceHistory) = LookbackPeriod + HistoryMargin
    /\ strategies.momentum.priceHistory[1] = QuietPrice
    /\ strategies.momentum.priceHistory[LookbackPeriod + HistoryMargin]
          = arrivals[Len(arrivals)].price
    /\ arrivals[Len(arrivals)].price # QuietPrice
    /\ arrivals[Len(arrivals)].volume # QuietVolume


----------------------------------------------------------------------------
\* Properties of the run as a whole

\* the level indexes in the order of the configured list
LevelList == [k \in 1 .. Len(Levels) |-> k - 1]

\* C33: escalation is monotonic per run: triggeredLevels is always a prefix of
\* the level list (a more severe level is never triggered while a less severe
\* one is not), and currentLevel never decreases between two resets (null
\* counting as below every level).
C33_EscalationMonotonic ==
    /\ [](IsPrefix(triggeredLevels, LevelList))
    /\ [][lastOp' # "reset" => currentLevel' >= currentLevel]_vars

\* C33 witness: after a reset the levels were triggered again, up to the last,
\* and a later call left them so
C33_Witness ==
    /\ resets = MaxResets
    /\ lastOp = "updateCapital"
    /\ emitted = << >>
    /\ triggeredLevels = LevelList
    /\ currentLevel = Len(Levels)


\* two fractions of the same value, and the lesser of two
SameFrac(a, b) == a.num * b.den = b.num * a.den
LesserFrac(a, b) == IF FracLess(a, b) THEN a ELSE b

\* C37: maxDrawdownReached <= currentDrawdown <= 0 in every state;
\* maxDrawdownReached is the least currentDrawdown seen since the last reset
\* (0 at construction and after reset, the lesser of its value and the new
\* drawdown after each updateCapital, untouched by every other call), so it
\* never increases between resets; reset() restores peakCapital =
\* currentCapital = initialCapital, both drawdowns to 0, no triggered level
\* and no pause.
C37_MaxDrawdownIsRunningMinimum ==
    /\ [](/\ FracLeq(maxDrawdownReached, currentDrawdown)
          /\ FracLeq(currentDrawdown, Zero))
    /\ [][/\ lastOp' = "updateCapital" =>
                SameFrac(maxDrawdownReached',
                         LesserFrac(maxDrawdownReached, currentDrawdown'))
          /\ lastOp' # "reset" => FracLeq(maxDrawdownReached', maxDrawdownReached)
          /\ lastOp' \notin {"updateCapital", "reset"} =>
                /\ currentDrawdown' = currentDrawdown
                /\ maxDrawdownReached' = maxDrawdownReached
          /\ lastOp' = "reset" =>
                /\ initialCapital' = initialCapital
                /\ peakCapital' = initialCapital
                /\ currentCapital' = initialCapital
                /\ currentDrawdown' = Zero
                /\ maxDrawdownReached' = Zero
                /\ triggeredLevels' = << >>
                /\ ~isPaused'
                /\ pauseUntil' = Null
                /\ currentLevel' = Null]_vars

\* C37 witness: capital has partly recovered from its lowest point, so the
\* current drawdown is above the maximum reached and below 0
C37_Witness ==
    /\ lastOp = "updateCapital"
    /\ FracLess(maxDrawdownReached, currentDrawdown)
    /\ FracLess(currentDrawdown, Zero)
    /\ peakCapital = 110 /\ currentCapital = 84


----------------------------------------------------------------------------
\* Properties of a managed position over its whole life

\* the managed position of pair p has given a full exit: its stop-loss has
\* triggered (update returned stop_loss in that call) or its last take-profit
\* level was executed (update returned all_take_profit_levels in that call)
GaveFullExit(p) ==
    \/ activeExits[p].stopLoss.isTriggered
    \/ allLevelsExecuted(activeExits[p].takeProfit)

\* the result of the step's update signals something: a full exit or a
\* partial exit
SignalsExit == lastResult'.shouldExit \/ lastResult' # NoExitResult

\* C35: for one managed position, update returns a full exit at most once;
\* after a stop_loss or an all_take_profit_levels result, the later updates of
\* the pair signal neither an exit nor a partial exit.
C35_FullExitIsFinal ==
    [][\A p \in Pairs :
         (UpdatesManaged(p) /\ GaveFullExit(p)) => ~SignalsExit]_vars

\* What does hold: each of the two reasons is given at most once for a managed
\* position; after stop_loss no later update returns stop_loss, and after the
\* last level was executed no later update returns a take-profit result
C35_EachReasonAtMostOnce ==
    [][\A p \in Pairs :
         UpdatesManaged(p) =>
            /\ activeExits[p].stopLoss.isTriggered => lastResult'.reason # "stop_loss"
            /\ allLevelsExecuted(activeExits[p].takeProfit) =>
                  lastResult'.reason \in {"null", "stop_loss"}]_vars

\* a partial exit signalled for a position whose stop-loss had triggered
C35_PartialExitAfterStopLoss ==
    /\ lastOp = "update"
    /\ lastArgs.pair \in DOMAIN activeExits
    /\ activeExits[lastArgs.pair].stopLoss.isTriggered
    /\ lastResult.reason = "undefined"
    /\ emitted = <<"risk.take_profit_triggered">>

\* a stop_loss exit returned for a position that had given
\* all_take_profit_levels
C35_StopLossAfterAllLevels ==
    /\ lastOp = "update"
    /\ lastArgs.pair \in DOMAIN activeExits
    /\ allLevelsExecuted(activeExits[lastArgs.pair].takeProfit)
    /\ lastResult.reason = "stop_loss"


\* every take-profit target of pair p lies above the entry price
TargetsAboveEntry(p) ==
    \A k \in LevelsOf(p) : activeExits[p].takeProfit.levels[k].percent > 0

\* while the stop-loss of p has not triggered, every level whose target price
\* is below the highest price seen is triggered (a target equal to the highest
\* price may be one the floating-point comparison did not reach)
PassedLevelsTriggered(p) ==
    ~activeExits[p].stopLoss.isTriggered =>
        \A k \in LevelsOf(p) :
           activeExits[p].takeProfit.levels[k].targetPrice
                 < activeExits[p].stopLoss.highestPrice
              => activeExits[p].takeProfit.levels[k].isTriggered

\* the update of the step sees a price at or below the stop price and at or
\* above the target of a level not yet triggered
StopAndTargetAtOnce(p) ==
    /\ lastArgs'.price <= activeExits'[p].stopLoss.stopPrice
    /\ \E k \in LevelsOf(p) :
          /\ ~activeExits[p].takeProfit.levels[k].isTriggered
          /\ lastArgs'.price >= activeExits[p].takeProfit.levels[k].targetPrice

----------------------------------------------------------------------------
\* Properties of the position manager's capital

\* the position of pair p holds the tokens its invested amount bought at its
\* entry price: tokenAmount = investedAmount / entryPrice
BoughtAtEntry(p) ==
    RatMul(openPositions[p].tokenAmount, Whole(openPositions[p].entryPrice))
        = openPositions[p].investedAmount

\* C39: capital is never double-counted.  currentCapital is initialCapital
\* plus the realizedPnL of the trade records returned so far: it starts at
\* initialCapital, every closePosition that returns a trade record adds that
\* record's realizedPnL, and openPosition, updatePosition (the unrealized PnL)
\* and a closePosition that returns null leave it unchanged.  Opening a
\* position takes its amount from the available capital, and closing it at
\* its entry price gives that amount back with currentCapital unchanged.
C39_CapitalNotDoubleCounted ==
    [][/\ lastOp' \in {"openPosition", "updatePosition"} =>
             positionCapital' = positionCapital
       /\ (lastOp' = "openPosition" /\ lastResult'.value) =>
             getAvailableCapital([currentCapital |-> positionCapital',
                                  openPositions |-> openPositions'])
                = RatSub(getAvailableCapital(PosWorld), lastArgs'.amountUSD)
       /\ (lastOp' = "closePosition" /\ lastResult' = NullResult) =>
             positionCapital' = positionCapital
       /\ (lastOp' = "closePosition" /\ lastResult' # NullResult) =>
             /\ positionCapital' = RatAdd(positionCapital, lastResult'.realizedPnL)
             /\ (lastArgs'.price = openPositions[lastArgs'.pair].entryPrice
                   /\ BoughtAtEntry(lastArgs'.pair)) =>
                   /\ positionCapital' = positionCapital
                   /\ getAvailableCapital([currentCapital |-> positionCapital',
                                           openPositions |-> openPositions'])
                         = RatAdd(getAvailableCapital(PosWorld),
                                  openPositions[lastArgs'.pair].investedAmount)]_vars

\* C39 witness: after a trade closed with a profit, a second position was
\* opened and closed at its entry price, and capital is what the first trade
\* left
C39_Witness ==
    /\ lastOp = "closePosition"
    /\ lastResult # NullResult
    /\ lastResult.exitPrice = lastResult.entryPrice
    /\ lastResult.realizedPnL = Whole(0)
    /\ opens = 2
    /\ RatLess(Whole(initialCapital), positionCapital)


----------------------------------------------------------------------------
\* Properties of the automatic selection over a run

\* the strategy autoSelectStrategy selects for the step's snapshot is the one
\* already current and active
SelectsTheActive(key) ==
    /\ lastOp' = "autoSelectStrategy"
    /\ strategyManager.currentStrategy = key
    /\ strategies[key].isActive
    /\ SelectedStrategy(lastArgs'.marketData) = key

\* the call changed nothing: no deactivate or activate, no event, lastSwitch
\* as it was
NothingSwitched ==
    /\ strategyManager' = strategyManager
    /\ strategies' = strategies
    /\ emitted' = << >>

\* C34: autoSelectStrategy switches only when needed: when the strategy it
\* selects for the snapshot is the one already active (grid while grid is
\* active, momentum while momentum is active), the call changes nothing: no
\* deactivate/activate, no STRATEGY_SELECTED event, and lastSwitch is not
\* refreshed.
C34_NoSwitchWhenAlreadyActive ==
    [][\A key \in StrategyKeys : SelectsTheActive(key) => NothingSwitched]_vars

\* What does hold: the same for momentum, and for grid while the cooldown runs
C34_NoSwitchOfMomentumOrInCooldown ==
    [][\A key \in StrategyKeys :
          (SelectsTheActive(key) /\ (key = "momentum" \/ InCooldown))
             => NothingSwitched]_vars

\* grid was active, autoSelectStrategy selected grid again after the cooldown:
\* the event was emitted (by activate and by selectStrategy) and lastSwitch
\* refreshed
C34_GridSelectedAgain ==
    /\ lastOp = "autoSelectStrategy"
    /\ SelectedStrategy(lastArgs.marketData) = "grid"
    /\ strategyManager.currentStrategy = "grid"
    /\ strategies.grid.isActive
    /\ emitted = <<"strategy.selected", "strategy.selected">>
    /\ strategyManager.lastSwitch = now
    /\ now = ClockStart + MaxSteps * StepMs


----------------------------------------------------------------------------
\* Properties of the momentum strategy over a run

\* the strategy is tracking an entry: a buy signal set entryPrice and
\* highestPrice and no sell signal has cleared them
Tracking(m) == m.entryPrice # Null /\ m.highestPrice # Null

GivesSignal(action) ==
    /\ lastOp' = "momentumAnalyze"
    /\ lastResult'.kind = "signal"
    /\ lastResult'.action = action

\* C38: momentum signals strictly alternate, starting with buy, whatever the
\* caller does with updatePosition and clearPosition between the analyze
\* calls: a sell signal is given only while an entry is tracked (and ends the
\* tracking), a buy signal only while none is; highestPrice >= entryPrice
\* while tracking, and each buy sets both to the price of the signal.
C38_SignalsAlternate ==
    /\ [](Tracking(strategies.momentum) =>
             strategies.momentum.highestPrice >= strategies.momentum.entryPrice)
    /\ [][/\ GivesSignal("sell") =>
                /\ Tracking(strategies.momentum)
                /\ ~Tracking(strategies'.momentum)
          /\ GivesSignal("buy") =>
                /\ ~Tracking(strategies.momentum)
                /\ strategies'.momentum.entryPrice = lastArgs'.price
                /\ strategies'.momentum.highestPrice = lastArgs'.price]_vars

\* What does hold: a buy sets entryPrice and highestPrice to its price, a sell
\* clears both, and highestPrice >= entryPrice while both are set
C38_PeakRestartsOnBuy ==
    /\ [](Tracking(strategies.momentum) =>
             strategies.momentum.highestPrice >= strategies.momentum.entryPrice)
    /\ [][/\ GivesSignal("sell") =>
                /\ strategies'.momentum.entryPrice = Null
                /\ strategies'.momentum.highestPrice = Null
          /\ GivesSignal("buy") =>
                /\ strategies'.momentum.entryPrice = lastArgs'.price
                /\ strategies'.momentum.highestPrice = lastArgs'.price]_vars

\* the first signal of a strategy is a sell: the caller had called
\* updatePosition, no buy signal was ever given, and the profit and loss is a
\* division by the null entry price
C38_SellWithoutBuy ==
    /\ lastOp = "momentumAnalyze"
    /\ lastResult.kind = "signal"
    /\ lastResult.action = "sell"
    /\ strategies.momentum.totalSignals = 1
    /\ lastResult.pnl.den = 0

----------------------------------------------------------------------------
\* Properties of the StorageManager's cycle

CycleActive == storage.currentCycle # NoCycle
WinsOf(trades) == Cardinality({k \in 1 .. Len(trades) : ~trades[k].pnlIsNull /\ trades[k].pnl > 0})
LossesOf(trades) == Cardinality({k \in 1 .. Len(trades) : ~trades[k].pnlIsNull /\ trades[k].pnl < 0})
Finalizes == lastOp' = "finalizeCycle" /\ CycleActive

\* winningTrades / totalTrades * 100 as JavaScript evaluates it: 0 / 0 is NaN
WinRateFormula(c) ==
    IF c.totalTrades = 0 THEN NotFinite
    ELSE Rat(PercentScale * c.winningTrades, c.totalTrades)

\* C31 as stated: the cycle that finalizeCycle returns always carries
\* winRate = 100 x winningTrades / totalTrades.  A cycle finalized without a
\* trade carries winRate null: the formula is only applied when
\* totalTrades > 0.
C31_WinRateAlwaysComputed ==
    [][Finalizes => /\ lastResult'.kind = "cycle"
                    /\ lastResult'.value.winRate = WinRateFormula(lastResult'.value)]_vars

\* C31: in an active cycle totalTrades is the number of stored trades,
\* winningTrades the number of them with pnl > 0, losingTrades the number with
\* pnl < 0, so winningTrades + losingTrades <= totalTrades; finalizeCycle
\* keeps these counters, reports winRate = 100 x winningTrades / totalTrades
\* when totalTrades > 0 and winRate null when there was no trade, and clears
\* the current cycle; without an active cycle addTrade changes nothing and
\* finalizeCycle returns null.
C31_CountersAndWinRate ==
    /\ [](CycleActive =>
            /\ storage.currentCycle.totalTrades = Len(storage.currentCycle.trades)
            /\ storage.currentCycle.winningTrades = WinsOf(storage.currentCycle.trades)
            /\ storage.currentCycle.losingTrades = LossesOf(storage.currentCycle.trades)
            /\ storage.currentCycle.winningTrades + storage.currentCycle.losingTrades
                   <= storage.currentCycle.totalTrades)
    /\ [][Finalizes =>
            /\ lastResult'.kind = "cycle"
            /\ lastResult'.value.trades = storage.currentCycle.trades
            /\ lastResult'.value.totalTrades = storage.currentCycle.totalTrades
            /\ lastResult'.value.winningTrades = storage.currentCycle.winningTrades
            /\ lastResult'.value.losingTrades = storage.currentCycle.losingTrades
            /\ IF storage.currentCycle.totalTrades > 0
               THEN /\ lastResult'.value.winRate # NoNumber
                    /\ lastResult'.value.winRate.den > 0
                    /\ lastResult'.value.winRate.num * storage.currentCycle.totalTrades
                         = PercentScale * storage.currentCycle.winningTrades
                             * lastResult'.value.winRate.den
               ELSE lastResult'.value.winRate = NoNumber
            /\ ~CycleActive'
            /\ storage'.written = lastResult'.value]_vars
    /\ [][lastOp' = "finalizeCycle" /\ ~CycleActive =>
            lastResult' = NullResult /\ storage' = storage]_vars
    /\ [][lastOp' = "addTrade" /\ ~CycleActive => storage' = storage]_vars

\* three winning and two losing trades were added and the cycle finalized
C31_Witness ==
    /\ lastOp = "finalizeCycle"
    /\ lastResult.kind = "cycle"
    /\ lastResult.value.winningTrades = 3
    /\ lastResult.value.losingTrades = 2
    /\ lastResult.value.winRate = Whole(60)
    /\ ~CycleActive

\* a cycle was finalized before any trade was added
C31_FinalizedWithoutTrades ==
    /\ lastOp = "finalizeCycle"
    /\ lastResult.kind = "cycle"
    /\ lastResult.value.totalTrades = 0
    /\ lastResult.value.winRate = NoNumber

\* a trade was offered after the cycle had been finalized
C31_TradeIgnored ==
    /\ lastOp = "addTrade"
    /\ ~CycleActive
    /\ storage.written # NoCycle
    /\ storage.written.totalTrades > 0

----------------------------------------------------------------------------
\* Properties of WalletManager.sendTransaction

Submissions == Len(wallet.submitted)
Failures == Cardinality({k \in 1 .. Submissions : wallet.submitted[k] = "error"})
InCall == wallet.pc \in {"submitting", "waiting"}
CallOver == wallet.pc \in {"returned", "thrown"}

\* the delays of the backoff after the failed attempts 0 .. n - 1
BackoffDelays(n) == [k \in 1 .. n |-> BackoffBaseMs * 2 ^ (k - 1)]

\* C32: a call sendTransaction(tx, retries) submits at most `retries` times;
\* a submission that succeeds is the last one and the call returns its
\* response; after the failed attempt i < retries - 1 the call sets a timer of
\* 2000 x 2^i ms and submits again only when it has fired, and after the
\* failed attempt retries - 1 it sets none; when every attempt has failed the
\* call throws the error of the attempt retries - 1 (with retries = 0 it
\* submits nothing and throws undefined); and when every submission settles
\* and the timers run, the call ends, by a return or by a throw.
C32_BoundedRetriesWithBackoff ==
    /\ [](/\ Submissions <= wallet.retries
          /\ \A k \in 1 .. Submissions :
                wallet.submitted[k] = "ok" => k = Submissions /\ wallet.pc = "returned"
          /\ wallet.pc = "returned" =>
                /\ Submissions > 0
                /\ wallet.submitted[Submissions] = "ok"
                /\ wallet.response = Submissions
          /\ wallet.pc = "thrown" =>
                /\ Submissions = wallet.retries
                /\ Failures = wallet.retries
                /\ wallet.thrown = IF wallet.retries > 0 THEN wallet.retries
                                   ELSE Undefined
          /\ wallet.delays = BackoffDelays(IF Failures < wallet.retries THEN Failures
                                           ELSE Max(0, wallet.retries - 1))
          /\ wallet.pc = "waiting" =>
                Failures = Submissions /\ Len(wallet.delays) = Submissions)
    /\ [][/\ lastOp' = "rejected" /\ wallet'.pc = "waiting" =>
                wallet'.wakeAt = now + BackoffBaseMs * 2 ^ (Submissions' - 1)
          /\ wallet.pc = "waiting" /\ wallet'.pc # "waiting" =>
                wallet'.pc = "submitting" /\ now >= wallet.wakeAt]_vars
    /\ (InCall ~> CallOver)

\* three attempts failed, with waits of 2000 and 4000 ms between them, and the
\* error of the third was thrown
C32_Witness ==
    /\ wallet.pc = "thrown"
    /\ wallet.retries = 3
    /\ wallet.submitted = <<"error", "error", "error">>
    /\ wallet.delays = <<2000, 4000>>
    /\ wallet.thrown = 3

\* the second attempt succeeded after one wait and no third was made
C32_ReturnedOnSecondAttempt ==
    /\ wallet.pc = "returned"
    /\ wallet.retries = 3
    /\ wallet.submitted = <<"error", "ok">>
    /\ wallet.delays = <<2000>>
    /\ wallet.response = 2

\* a call with retries = 0 threw without a submission
C32_NoAttempt ==
    /\ wallet.pc = "thrown"
    /\ wallet.calls > 0
    /\ wallet.retries = 0
    /\ wallet.submitted = << >>
    /\ wallet.thrown = Undefined

====
